---------------------------- MODULE Spec2Model ----------------------------
(***************************************************************************)
(* Model of the HAb_DB frontend's data-transformation routines:            *)
(*   - formatXYZ / parseXYZAtoms / getZ and the memoised values of         *)
(*     ConformerPage (src/hab_db_frontend/src/ConformerPage.tsx)           *)
(*   - buildUrl of the search page (src/unnamed/part_000)                  *)
(*                                                                         *)
(* A JavaScript string is a sequence of one-character strings.  A number   *)
(* is a record: [kind |-> "nan"], [kind |-> "inf", neg], or                *)
(* [kind |-> "fin", neg, int, frac] with int/frac the decimal digits       *)
(* before/after the point (no leading zeros in int, no trailing zeros in   *)
(* frac), so that no 32-bit arithmetic is ever done on a coordinate.       *)
(***************************************************************************)
EXTENDS Integers, Sequences, FiniteSets, TLC

VARIABLES
    geom_xyz,      \* data?.geom_xyz of ConformerPage; NoData before the fetch resolves
    showZ,         \* the "atomic numbers" switch of the geometry tab
    prettySym,     \* useMemo: formatXYZ(geom_xyz ?? "", 6, "sym")
    prettyZ,       \* useMemo: formatXYZ(geom_xyz ?? "", 6, "z")
    atomList,      \* useMemo: parseXYZAtoms(geom_xyz)
    indexGutter,   \* useMemo: the row numbers shown beside displayXYZ
    params,        \* the parameter mapping handed to buildUrl (ordered entries)
    url,           \* the query string buildUrl produced for params
    nativeCode,    \* how the browser's engine writes the body of a built-in
                   \* function in String(f) (implementation-defined)
    mode,          \* App: the tab, "molecules", "reactions" or "ts"
    q,             \* App: the SMILES field of the Molecules tab
    tsSmiles,      \* App: the TS SMILES field of the TS tab
    atoms,         \* App: the element chips of the Molecules tab
    tsAtoms,       \* App: the element chips of the TS tab
    maxHeavy,      \* App: the heavy atom slider
    limit,         \* App: the page size
    offset,        \* App: the offset of the page shown
    species,       \* App: the rows of the result table (species ids)
    searchLoading, \* App: the busy flag of the search
    error,         \* App: the error shown, or null
    selectedId,    \* App: the species whose conformers are shown, or null
    confs,         \* App: the conformer rows (the species they belong to)
    confLoading,   \* App: the busy flag of the conformer table
    repOnly,       \* App: "Representatives only"
    nonTSOnly,     \* App: "Non-TS only"
    lotId,         \* App: the LoT ID field, null before it is typed into
    wellRank,      \* App: the well rank field, or null
    timers,        \* the pending timers of the debounce effect
    inflight,      \* the requests sent and not yet answered
    issued,        \* the number of requests sent so far
    quota,         \* the number of requests a run of the model may send
    confsFrom      \* the request whose response set confs last (0: none)

xyzVars == <<geom_xyz, showZ, prettySym, prettyZ, atomList, indexGutter>>
urlVars == <<params, url>>
appVars ==
    <<mode, q, tsSmiles, atoms, tsAtoms, maxHeavy, limit, offset, species,
      searchLoading, error, selectedId, confs, confLoading, repOnly, nonTSOnly,
      lotId, wellRank, timers, inflight, issued, quota, confsFrom>>
vars == <<xyzVars, urlVars, nativeCode, appVars>>

-----------------------------------------------------------------------------
(* Bounds of the model.                                                    *)

\* Largest number of lines of a geometry text drawn as input.
MaxLines == 3

\* Largest number of entries of a parameter mapping handed to buildUrl.
MaxParams == 3

\* Largest number of requests App sends in a run about the conformer table.
MaxRequests == 4

\* Largest number of requests App sends in a run about the filters that
\* reach the server.
MaxFilterRequests == 5

\* Largest number of requests App sends in a run about the pages of the
\* results.
MaxPagingRequests == 3

\* Largest number of requests App sends in a run about the tabs.
MaxAppRequests == 3

\* Largest number of requests App sends in a run about the SMILES fields.
MaxGuardRequests == 2

\* Largest number of pages the user goes forward with Next.
MaxPage == 1

-----------------------------------------------------------------------------
(* JavaScript string primitives.                                           *)

DigitChars == <<"0", "1", "2", "3", "4", "5", "6", "7", "8", "9">>

IsDigit(c) == \E d \in 1..10 : DigitChars[d] = c

DigitVal(c) == (CHOOSE d \in 1..10 : DigitChars[d] = c) - 1

DigitChar(d) == DigitChars[d + 1]

\* The white space of String.prototype.trim and of the regular expression \s
\* (the members that occur in the inputs drawn here).
IsWS(c) == c \in {" ", "\t", "\n", "\r"}

Min(a, b) == IF a < b THEN a ELSE b

Max(a, b) == IF a > b THEN a ELSE b

RECURSIVE Repeat(_, _)
Repeat(c, n) == IF n <= 0 THEN <<>> ELSE <<c>> \o Repeat(c, n - 1)

RECURSIVE Concat(_)
\* Array.prototype.join("") of a sequence of strings.
Concat(ss) == IF ss = <<>> THEN <<>> ELSE Head(ss) \o Concat(Tail(ss))

RECURSIVE Join(_, _)
\* Array.prototype.join(sep).
Join(ss, sep) ==
    IF ss = <<>> THEN <<>>
    ELSE IF Len(ss) = 1 THEN ss[1]
    ELSE ss[1] \o sep \o Join(Tail(ss), sep)

\* xyz.replace(/\r/g, "")
RemoveCR(s) == SelectSeq(s, LAMBDA c : c # "\r")

RECURSIVE FirstNonWS(_, _)
FirstNonWS(s, i) ==
    IF i > Len(s) THEN i ELSE IF IsWS(s[i]) THEN FirstNonWS(s, i + 1) ELSE i

RECURSIVE LastNonWS(_, _)
LastNonWS(s, i) ==
    IF i < 1 THEN i ELSE IF IsWS(s[i]) THEN LastNonWS(s, i - 1) ELSE i

\* String.prototype.trim
Trim(s) == SubSeq(s, FirstNonWS(s, 1), LastNonWS(s, Len(s)))

\* The k-th smallest member of a set of indices.
KthOf(S, k) == CHOOSE i \in S : Cardinality({j \in S : j < i}) = k - 1

\* The pieces of s between the occurrences of the character c.
SplitChar(s, c) ==
    LET at == {i \in 1..Len(s) : s[i] = c}
        n == Cardinality(at)
        pos(k) == IF k = 0 THEN 0 ELSE IF k = n + 1 THEN Len(s) + 1 ELSE KthOf(at, k)
    IN  [k \in 1..(n + 1) |-> SubSeq(s, pos(k - 1) + 1, pos(k) - 1)]

\* String.prototype.split("\n"): never empty, "" gives [""].
SplitNL(s) == SplitChar(s, "\n")

\* String.prototype.split(/\s+/): every maximal run of white space
\* separates, so a string that begins or ends with white space gives an
\* empty first or last piece, and "" gives [""].
SplitWS(s) ==
    LET starts == {i \in 1..Len(s) : ~IsWS(s[i]) /\ (i = 1 \/ IsWS(s[i - 1]))}
        ends == {i \in 1..Len(s) : ~IsWS(s[i]) /\ (i = Len(s) \/ IsWS(s[i + 1]))}
        toks == [k \in 1..Cardinality(starts) |->
                    SubSeq(s, KthOf(starts, k), KthOf(ends, k))]
    IN  IF s = <<>> THEN <<<<>>>>
        ELSE (IF IsWS(s[1]) THEN <<<<>>>> ELSE <<>>) \o toks
                 \o (IF IsWS(s[Len(s)]) THEN <<<<>>>> ELSE <<>>)

\* String.prototype.padStart(n, " ") and padEnd(n, " "): pad, never truncate.
PadStart(s, n) == Repeat(" ", n - Len(s)) \o s

PadEnd(s, n) == s \o Repeat(" ", n - Len(s))

RECURSIVE NatToString(_)
\* String(n) of a non-negative integer.
NatToString(n) ==
    IF n < 10 THEN <<DigitChar(n)>>
    ELSE NatToString(n \div 10) \o <<DigitChar(n % 10)>>

-----------------------------------------------------------------------------
(* JavaScript numbers: parseInt, Number(string), Number.prototype.toFixed. *)

NaN == [kind |-> "nan"]

Infinity(neg) == [kind |-> "inf", neg |-> neg]

\* n zeros (none when n <= 0).
Zeros(n) == [k \in 1..(IF n > 0 THEN n ELSE 0) |-> 0]

RECURSIVE StripLeadingZeros(_)
StripLeadingZeros(ds) ==
    IF ds # <<>> /\ Head(ds) = 0 THEN StripLeadingZeros(Tail(ds)) ELSE ds

RECURSIVE StripTrailingZeros(_)
StripTrailingZeros(ds) ==
    IF ds # <<>> /\ ds[Len(ds)] = 0
    THEN StripTrailingZeros(SubSeq(ds, 1, Len(ds) - 1))
    ELSE ds

\* The finite number (-1)^neg * int.frac, in normal form.
Finite(neg, int, frac) ==
    [kind |-> "fin", neg |-> neg,
     int |-> StripLeadingZeros(int), frac |-> StripTrailingZeros(frac)]

\* Number.isFinite
IsFinite(x) == x.kind = "fin"

IsZero(x) == x.int = <<>> /\ x.frac = <<>>

\* Magnitudes of integers at or above this are kept as this value: such an
\* integer is only ever compared with a line count or used as an exponent.
SaturatedInt == 1000000000

RECURSIVE DigitsToNat(_, _)
DigitsToNat(ds, acc) ==
    IF ds = <<>> THEN acc
    ELSE IF acc >= SaturatedInt \div 10 THEN SaturatedInt
    ELSE DigitsToNat(Tail(ds), 10 * acc + Head(ds))

RECURSIVE DigitRunEnd(_, _)
\* The index after the run of decimal digits of s starting at i.
DigitRunEnd(s, i) ==
    IF i <= Len(s) /\ IsDigit(s[i]) THEN DigitRunEnd(s, i + 1) ELSE i

DigitsOf(s, i, j) == [k \in 1..(j - i) |-> DigitVal(s[i + k - 1])]

HasSign(s, i) == i <= Len(s) /\ s[i] \in {"+", "-"}

\* parseInt(s, 10): leading white space skipped, an optional sign, then the
\* longest prefix of decimal digits; NaN when there is none.  The result is
\* [nan |-> TRUE] or [nan |-> FALSE, n |-> the integer].
ParseInt(s) ==
    LET i0 == FirstNonWS(s, 1)
        i1 == IF HasSign(s, i0) THEN i0 + 1 ELSE i0
        i2 == DigitRunEnd(s, i1)
        mag == DigitsToNat(DigitsOf(s, i1, i2), 0)
    IN  IF i2 = i1 THEN [nan |-> TRUE]
        ELSE [nan |-> FALSE,
              n |-> IF i0 < i1 /\ s[i0] = "-" THEN 0 - mag ELSE mag]

\* The digits int.frac with the decimal point moved e places to the right
\* (to the left when e < 0).
ShiftPoint(neg, int, frac, e) ==
    LET all == int \o frac
        pt  == Len(int) + e
    IN  IF pt >= Len(all)
        THEN Finite(neg, all \o Zeros(pt - Len(all)), <<>>)
        ELSE IF pt <= 0
        THEN Finite(neg, <<>>, Zeros(0 - pt) \o all)
        ELSE Finite(neg, SubSeq(all, 1, pt), SubSeq(all, pt + 1, Len(all)))

\* Decimal exponents beyond the range of a double: the value overflows to
\* Infinity (positive exponent) or underflows to zero (negative exponent).
MaxDoubleExp10 == 309

\* StrDecimalLiteral without its sign: digits [. digits] [e [sign] digits],
\* with a digit before or after the point.
UnsignedDecimal(s, i, neg) ==
    LET i1 == DigitRunEnd(s, i)
        hasDot == i1 <= Len(s) /\ s[i1] = "."
        f0 == IF hasDot THEN i1 + 1 ELSE i1
        f1 == DigitRunEnd(s, f0)
        int == DigitsOf(s, i, i1)
        frac == DigitsOf(s, f0, f1)
        hasExp == f1 <= Len(s) /\ s[f1] \in {"e", "E"}
        e0 == IF HasSign(s, f1 + 1) THEN f1 + 2 ELSE f1 + 1
        e1 == DigitRunEnd(s, e0)
        eneg == HasSign(s, f1 + 1) /\ s[f1 + 1] = "-"
        emag == DigitsToNat(DigitsOf(s, e0, e1), 0)
        mant == Finite(neg, int, frac)
        lead == Len(mant.int) - (IF mant.int = <<>>
                                 THEN Len(frac) - Len(StripLeadingZeros(frac))
                                 ELSE 0)
    IN  IF i1 = i /\ f1 = f0 THEN NaN
        ELSE IF ~hasExp THEN (IF f1 > Len(s) THEN mant ELSE NaN)
        ELSE IF e1 = e0 \/ e1 <= Len(s) THEN NaN
        ELSE IF IsZero(mant) THEN mant
        ELSE IF ~eneg /\ lead + Min(emag, 1000) > MaxDoubleExp10 THEN Infinity(neg)
        ELSE IF eneg /\ Min(emag, 1000) - lead > MaxDoubleExp10 + 15
             THEN Finite(neg, <<>>, <<>>)
        ELSE ShiftPoint(neg, int, frac, IF eneg THEN 0 - emag ELSE emag)

InfinityWord == <<"I", "n", "f", "i", "n", "i", "t", "y">>

\* Number(s) of a string without white space (ToNumber applied to a String):
\* "" is 0; Infinity with an optional sign; a signed decimal literal; any
\* other string over the characters drawn here is NaN.
StringToNumber(s) ==
    LET signed == HasSign(s, 1)
        neg == signed /\ s[1] = "-"
        i == IF signed THEN 2 ELSE 1
    IN  IF s = <<>> THEN Finite(FALSE, <<>>, <<>>)
        ELSE IF SubSeq(s, i, Len(s)) = InfinityWord THEN Infinity(neg)
        ELSE UnsignedDecimal(s, i, neg)

\* Number(p[k]) for the k-th element of an array of strings: an index past
\* the end reads undefined, and Number(undefined) is NaN.
NumberAt(p, k) == IF k <= Len(p) THEN StringToNumber(p[k]) ELSE NaN

RECURSIVE Increment(_)
\* The digits of n + 1 for the digits of n.
Increment(ds) ==
    IF ds = <<>> THEN <<1>>
    ELSE IF ds[Len(ds)] < 9
         THEN SubSeq(ds, 1, Len(ds) - 1) \o <<ds[Len(ds)] + 1>>
         ELSE Increment(SubSeq(ds, 1, Len(ds) - 1)) \o <<0>>

DigitsToString(ds) == [k \in 1..Len(ds) |-> DigitChar(ds[k])]

\* From this many integer digits on (x >= 1e21) toFixed gives String(x).
ToFixedExpDigits == 22

\* Number::toString of a finite x >= 1e21: the significant digits d.ddd,
\* then e+ and the decimal exponent.
ToExponentString(x) ==
    LET sig == StripTrailingZeros(x.int \o x.frac)
        head == <<DigitChar(sig[1])>>
        rest == IF Len(sig) > 1
                THEN <<".">> \o DigitsToString(Tail(sig)) ELSE <<>>
    IN  (IF x.neg THEN <<"-">> ELSE <<>>) \o head \o rest
            \o <<"e", "+">> \o NatToString(Len(x.int) - 1)

\* Number.prototype.toFixed(f) for finite x and 0 <= f <= 100: n is the
\* integer nearest to |x| * 10^f (the larger one on a tie), printed with
\* f digits after the point and a minus sign when x < 0.
ToFixed(x, f) ==
    LET fracPad == x.frac \o Zeros(f + 1 - Len(x.frac))
        kept == StripLeadingZeros(x.int \o SubSeq(fracPad, 1, f))
        n == IF fracPad[f + 1] >= 5 THEN Increment(kept) ELSE kept
        m == Zeros(f + 1 - Len(n)) \o n
        k == Len(m)
        body == IF f = 0 THEN DigitsToString(m)
                ELSE DigitsToString(SubSeq(m, 1, k - f)) \o <<".">>
                         \o DigitsToString(SubSeq(m, k - f + 1, k))
    IN  IF Len(x.int) >= ToFixedExpDigits THEN ToExponentString(x)
        ELSE (IF x.neg /\ ~IsZero(x) THEN <<"-">> ELSE <<>>) \o body

-----------------------------------------------------------------------------
(* The element table and getZ.                                             *)

\* Variant of Z_FROM_SYMBOL with a slip of the pen: Og entered as 117, the
\* number of Ts, so that 118 is missing and 117 has two symbols.
Z_FROM_SYMBOL_OgAs117 ==
    {<<<<"H">>, 1>>, <<<<"H", "e">>, 2>>, <<<<"L", "i">>, 3>>,
     <<<<"B", "e">>, 4>>, <<<<"B">>, 5>>, <<<<"C">>, 6>>, <<<<"N">>, 7>>,
     <<<<"O">>, 8>>, <<<<"F">>, 9>>, <<<<"N", "e">>, 10>>,
     <<<<"N", "a">>, 11>>, <<<<"M", "g">>, 12>>, <<<<"A", "l">>, 13>>,
     <<<<"S", "i">>, 14>>, <<<<"P">>, 15>>, <<<<"S">>, 16>>,
     <<<<"C", "l">>, 17>>, <<<<"A", "r">>, 18>>, <<<<"K">>, 19>>,
     <<<<"C", "a">>, 20>>, <<<<"S", "c">>, 21>>, <<<<"T", "i">>, 22>>,
     <<<<"V">>, 23>>, <<<<"C", "r">>, 24>>, <<<<"M", "n">>, 25>>,
     <<<<"F", "e">>, 26>>, <<<<"C", "o">>, 27>>, <<<<"N", "i">>, 28>>,
     <<<<"C", "u">>, 29>>, <<<<"Z", "n">>, 30>>, <<<<"G", "a">>, 31>>,
     <<<<"G", "e">>, 32>>, <<<<"A", "s">>, 33>>, <<<<"S", "e">>, 34>>,
     <<<<"B", "r">>, 35>>, <<<<"K", "r">>, 36>>, <<<<"R", "b">>, 37>>,
     <<<<"S", "r">>, 38>>, <<<<"Y">>, 39>>, <<<<"Z", "r">>, 40>>,
     <<<<"N", "b">>, 41>>, <<<<"M", "o">>, 42>>, <<<<"T", "c">>, 43>>,
     <<<<"R", "u">>, 44>>, <<<<"R", "h">>, 45>>, <<<<"P", "d">>, 46>>,
     <<<<"A", "g">>, 47>>, <<<<"C", "d">>, 48>>, <<<<"I", "n">>, 49>>,
     <<<<"S", "n">>, 50>>, <<<<"S", "b">>, 51>>, <<<<"T", "e">>, 52>>,
     <<<<"I">>, 53>>, <<<<"X", "e">>, 54>>, <<<<"C", "s">>, 55>>,
     <<<<"B", "a">>, 56>>, <<<<"L", "a">>, 57>>, <<<<"C", "e">>, 58>>,
     <<<<"P", "r">>, 59>>, <<<<"N", "d">>, 60>>, <<<<"P", "m">>, 61>>,
     <<<<"S", "m">>, 62>>, <<<<"E", "u">>, 63>>, <<<<"G", "d">>, 64>>,
     <<<<"T", "b">>, 65>>, <<<<"D", "y">>, 66>>, <<<<"H", "o">>, 67>>,
     <<<<"E", "r">>, 68>>, <<<<"T", "m">>, 69>>, <<<<"Y", "b">>, 70>>,
     <<<<"L", "u">>, 71>>, <<<<"H", "f">>, 72>>, <<<<"T", "a">>, 73>>,
     <<<<"W">>, 74>>, <<<<"R", "e">>, 75>>, <<<<"O", "s">>, 76>>,
     <<<<"I", "r">>, 77>>, <<<<"P", "t">>, 78>>, <<<<"A", "u">>, 79>>,
     <<<<"H", "g">>, 80>>, <<<<"T", "l">>, 81>>, <<<<"P", "b">>, 82>>,
     <<<<"B", "i">>, 83>>, <<<<"P", "o">>, 84>>, <<<<"A", "t">>, 85>>,
     <<<<"R", "n">>, 86>>, <<<<"F", "r">>, 87>>, <<<<"R", "a">>, 88>>,
     <<<<"A", "c">>, 89>>, <<<<"T", "h">>, 90>>, <<<<"P", "a">>, 91>>,
     <<<<"U">>, 92>>, <<<<"N", "p">>, 93>>, <<<<"P", "u">>, 94>>,
     <<<<"A", "m">>, 95>>, <<<<"C", "m">>, 96>>, <<<<"B", "k">>, 97>>,
     <<<<"C", "f">>, 98>>, <<<<"E", "s">>, 99>>, <<<<"F", "m">>, 100>>,
     <<<<"M", "d">>, 101>>, <<<<"N", "o">>, 102>>, <<<<"L", "r">>, 103>>,
     <<<<"R", "f">>, 104>>, <<<<"D", "b">>, 105>>, <<<<"S", "g">>, 106>>,
     <<<<"B", "h">>, 107>>, <<<<"H", "s">>, 108>>, <<<<"M", "t">>, 109>>,
     <<<<"D", "s">>, 110>>, <<<<"R", "g">>, 111>>, <<<<"C", "n">>, 112>>,
     <<<<"N", "h">>, 113>>, <<<<"F", "l">>, 114>>, <<<<"M", "c">>, 115>>,
     <<<<"L", "v">>, 116>>, <<<<"T", "s">>, 117>>, <<<<"O", "g">>, 117>>}

\* Z_FROM_SYMBOL: the own properties of the object literal, as
\* <<symbol, atomic number>> pairs.
Z_FROM_SYMBOL ==
    {<<<<"H">>, 1>>, <<<<"H", "e">>, 2>>, <<<<"L", "i">>, 3>>,
     <<<<"B", "e">>, 4>>, <<<<"B">>, 5>>, <<<<"C">>, 6>>, <<<<"N">>, 7>>,
     <<<<"O">>, 8>>, <<<<"F">>, 9>>, <<<<"N", "e">>, 10>>,
     <<<<"N", "a">>, 11>>, <<<<"M", "g">>, 12>>, <<<<"A", "l">>, 13>>,
     <<<<"S", "i">>, 14>>, <<<<"P">>, 15>>, <<<<"S">>, 16>>,
     <<<<"C", "l">>, 17>>, <<<<"A", "r">>, 18>>, <<<<"K">>, 19>>,
     <<<<"C", "a">>, 20>>, <<<<"S", "c">>, 21>>, <<<<"T", "i">>, 22>>,
     <<<<"V">>, 23>>, <<<<"C", "r">>, 24>>, <<<<"M", "n">>, 25>>,
     <<<<"F", "e">>, 26>>, <<<<"C", "o">>, 27>>, <<<<"N", "i">>, 28>>,
     <<<<"C", "u">>, 29>>, <<<<"Z", "n">>, 30>>, <<<<"G", "a">>, 31>>,
     <<<<"G", "e">>, 32>>, <<<<"A", "s">>, 33>>, <<<<"S", "e">>, 34>>,
     <<<<"B", "r">>, 35>>, <<<<"K", "r">>, 36>>, <<<<"R", "b">>, 37>>,
     <<<<"S", "r">>, 38>>, <<<<"Y">>, 39>>, <<<<"Z", "r">>, 40>>,
     <<<<"N", "b">>, 41>>, <<<<"M", "o">>, 42>>, <<<<"T", "c">>, 43>>,
     <<<<"R", "u">>, 44>>, <<<<"R", "h">>, 45>>, <<<<"P", "d">>, 46>>,
     <<<<"A", "g">>, 47>>, <<<<"C", "d">>, 48>>, <<<<"I", "n">>, 49>>,
     <<<<"S", "n">>, 50>>, <<<<"S", "b">>, 51>>, <<<<"T", "e">>, 52>>,
     <<<<"I">>, 53>>, <<<<"X", "e">>, 54>>, <<<<"C", "s">>, 55>>,
     <<<<"B", "a">>, 56>>, <<<<"L", "a">>, 57>>, <<<<"C", "e">>, 58>>,
     <<<<"P", "r">>, 59>>, <<<<"N", "d">>, 60>>, <<<<"P", "m">>, 61>>,
     <<<<"S", "m">>, 62>>, <<<<"E", "u">>, 63>>, <<<<"G", "d">>, 64>>,
     <<<<"T", "b">>, 65>>, <<<<"D", "y">>, 66>>, <<<<"H", "o">>, 67>>,
     <<<<"E", "r">>, 68>>, <<<<"T", "m">>, 69>>, <<<<"Y", "b">>, 70>>,
     <<<<"L", "u">>, 71>>, <<<<"H", "f">>, 72>>, <<<<"T", "a">>, 73>>,
     <<<<"W">>, 74>>, <<<<"R", "e">>, 75>>, <<<<"O", "s">>, 76>>,
     <<<<"I", "r">>, 77>>, <<<<"P", "t">>, 78>>, <<<<"A", "u">>, 79>>,
     <<<<"H", "g">>, 80>>, <<<<"T", "l">>, 81>>, <<<<"P", "b">>, 82>>,
     <<<<"B", "i">>, 83>>, <<<<"P", "o">>, 84>>, <<<<"A", "t">>, 85>>,
     <<<<"R", "n">>, 86>>, <<<<"F", "r">>, 87>>, <<<<"R", "a">>, 88>>,
     <<<<"A", "c">>, 89>>, <<<<"T", "h">>, 90>>, <<<<"P", "a">>, 91>>,
     <<<<"U">>, 92>>, <<<<"N", "p">>, 93>>, <<<<"P", "u">>, 94>>,
     <<<<"A", "m">>, 95>>, <<<<"C", "m">>, 96>>, <<<<"B", "k">>, 97>>,
     <<<<"C", "f">>, 98>>, <<<<"E", "s">>, 99>>, <<<<"F", "m">>, 100>>,
     <<<<"M", "d">>, 101>>, <<<<"N", "o">>, 102>>, <<<<"L", "r">>, 103>>,
     <<<<"R", "f">>, 104>>, <<<<"D", "b">>, 105>>, <<<<"S", "g">>, 106>>,
     <<<<"B", "h">>, 107>>, <<<<"H", "s">>, 108>>, <<<<"M", "t">>, 109>>,
     <<<<"D", "s">>, 110>>, <<<<"R", "g">>, 111>>, <<<<"C", "n">>, 112>>,
     <<<<"N", "h">>, 113>>, <<<<"F", "l">>, 114>>, <<<<"M", "c">>, 115>>,
     <<<<"L", "v">>, 116>>, <<<<"T", "s">>, 117>>, <<<<"O", "g">>, 118>>}

\* The function-valued properties every object literal inherits from
\* Object.prototype: Z_FROM_SYMBOL[name] reads them for these names.
ObjectPrototypeFunctions ==
    {<<"c", "o", "n", "s", "t", "r", "u", "c", "t", "o", "r">>,
     <<"h", "a", "s", "O", "w", "n", "P", "r", "o", "p", "e", "r", "t", "y">>,
     <<"i", "s", "P", "r", "o", "t", "o", "t", "y", "p", "e", "O", "f">>,
     <<"p", "r", "o", "p", "e", "r", "t", "y", "I", "s", "E", "n", "u", "m", "e", "r", "a", "b", "l", "e">>,
     <<"t", "o", "L", "o", "c", "a", "l", "e", "S", "t", "r", "i", "n", "g">>,
     <<"t", "o", "S", "t", "r", "i", "n", "g">>,
     <<"v", "a", "l", "u", "e", "O", "f">>,
     <<"_", "_", "d", "e", "f", "i", "n", "e", "G", "e", "t", "t", "e", "r", "_", "_">>,
     <<"_", "_", "d", "e", "f", "i", "n", "e", "S", "e", "t", "t", "e", "r", "_", "_">>,
     <<"_", "_", "l", "o", "o", "k", "u", "p", "G", "e", "t", "t", "e", "r", "_", "_">>,
     <<"_", "_", "l", "o", "o", "k", "u", "p", "S", "e", "t", "t", "e", "r", "_", "_">>}

\* The accessor property __proto__ of Object.prototype: Z_FROM_SYMBOL["__proto__"]
\* is the object Object.prototype.
ProtoKey ==
    <<"_", "_", "p", "r", "o", "t", "o", "_", "_">>

\* Z_FROM_SYMBOL[sym]: an own property, else an inherited one, else undefined.
\* A JavaScript value is [t |-> "number", n], [t |-> "function", name],
\* [t |-> "object"], [t |-> "string", s] or [t |-> "undefined"].
TableLookup(sym) ==
    IF \E e \in Z_FROM_SYMBOL : e[1] = sym
    THEN [t |-> "number", n |-> (CHOOSE e \in Z_FROM_SYMBOL : e[1] = sym)[2]]
    ELSE IF sym \in ObjectPrototypeFunctions THEN [t |-> "function", name |-> sym]
    ELSE IF sym = ProtoKey THEN [t |-> "object"]
    ELSE [t |-> "undefined"]

\* getZ = (sym) => Z_FROM_SYMBOL[sym] ?? 0
getZ(sym) ==
    LET v == TableLookup(sym)
    IN  IF v.t = "undefined" THEN [t |-> "number", n |-> 0] ELSE v

\* String(f) of a built-in function f is "function name" and a body whose
\* white space the engine chooses: V8 writes it on one line,
NativeCodeBody ==
    <<"(", ")", " ", "{", " ", "[", "n", "a", "t", "i", "v", "e", " ", "c",
      "o", "d", "e", "]", " ", "}">>

\* SpiderMonkey and JavaScriptCore on three.
NativeCodeBodyMultiline ==
    <<"(", ")", " ", "{", "\n", " ", " ", " ", " ", "[", "n", "a", "t", "i",
      "v", "e", " ", "c", "o", "d", "e", "]", "\n", "}">>

NativeCodeLayouts == {NativeCodeBody, NativeCodeBodyMultiline}

FunctionWord ==
    <<"f", "u", "n", "c", "t", "i", "o", "n", " ">>

ObjectObject ==
    <<"[", "o", "b", "j", "e", "c", "t", " ", "O", "b", "j", "e", "c", "t",
      "]">>

TrueWord == <<"t", "r", "u", "e">>

FalseWord == <<"f", "a", "l", "s", "e">>

UndefinedWord == <<"u", "n", "d", "e", "f", "i", "n", "e", "d">>

NullWord == <<"n", "u", "l", "l">>

\* String(v)
ToStr(v) ==
    IF v.t = "string" THEN v.s
    ELSE IF v.t = "number" THEN NatToString(v.n)
    ELSE IF v.t = "boolean" THEN (IF v.b THEN TrueWord ELSE FalseWord)
    ELSE IF v.t = "undefined" THEN UndefinedWord
    ELSE IF v.t = "null" THEN NullWord
    ELSE IF v.t = "function" THEN FunctionWord \o v.name \o nativeCode
    ELSE ObjectObject

-----------------------------------------------------------------------------
(* formatXYZ and parseXYZAtoms.                                            *)

Null == [t |-> "null"]

\* lines = xyz.replace(/\r/g, "").trim().split("\n")
LinesOf(xyz) == SplitNL(Trim(RemoveCR(xyz)))

\* maybeN = parseInt(lines[0]?.trim() ?? "", 10);
\* hasHeader = Number.isFinite(maybeN) && lines.length >= maybeN + 2
HasHeader(lines) ==
    LET maybeN == ParseInt(Trim(lines[1]))
    IN  ~maybeN.nan /\ Len(lines) >= maybeN.n + 2

\* coordLines = hasHeader ? lines.slice(2) : lines
CoordLines(lines) ==
    IF HasHeader(lines) THEN SubSeq(lines, 3, Len(lines)) ELSE lines

\* The callback of coordLines.map: the entry of a line, or null.
EntryOf(ln) ==
    LET p == SplitWS(Trim(ln))
        sym == p[1]
        x == NumberAt(p, 2)
        y == NumberAt(p, 3)
        z == NumberAt(p, 4)
    IN  IF sym # <<>> /\ IsFinite(x) /\ IsFinite(y) /\ IsFinite(z)
        THEN [sym |-> sym, x |-> x, y |-> y, z |-> z]
        ELSE Null

RECURSIVE EntriesUntilBad(_)
\* Mutant of EntriesOf: the parse stops at the first line it rejects.
EntriesUntilBad(coordLines) ==
    IF coordLines = <<>> \/ EntryOf(Head(coordLines)) = Null THEN <<>>
    ELSE <<EntryOf(Head(coordLines))>> \o EntriesUntilBad(Tail(coordLines))

\* entries = coordLines.map(...).filter(Boolean)
EntriesOf(coordLines) ==
    SelectSeq([i \in 1..Len(coordLines) |-> EntryOf(coordLines[i])],
              LAMBDA e : e # Null)

\* The entries formatXYZ parses out of a non-empty xyz.
ParseEntries(xyz) == EntriesOf(CoordLines(LinesOf(xyz)))

\* The width of a coordinate column.
ColWidth == 12

\* The width of the atom label column.
AtomFieldWidth == 2

\* col = (n) => n.toFixed(decimals).padStart(12, " ")
col(n, decimals) == PadStart(ToFixed(n, decimals), ColWidth)

\* atomField = (sym) => String(atomCol === "z" ? getZ(sym) : sym).padEnd(2, " ")
atomField(sym, atomCol) ==
    PadEnd(ToStr(IF atomCol = "z" THEN getZ(sym) ELSE [t |-> "string", s |-> sym]),
           AtomFieldWidth)

\* One element of rows.
RowOf(e, decimals, atomCol) ==
    atomField(e.sym, atomCol) \o col(e.x, decimals) \o col(e.y, decimals)
        \o col(e.z, decimals)

\* rows = entries.map(...)
RowsOf(entries, decimals, atomCol) ==
    [i \in 1..Len(entries) |-> RowOf(entries[i], decimals, atomCol)]

\* toFixed throws a RangeError unless 0 <= decimals <= 100.
ToFixedMaxDigits == 100

\* Mutant of formatXYZ: the fallback returns the normalised lines, not xyz.
formatXYZNormalisedFallback(xyz, decimals, atomCol) ==
    IF xyz = <<>> THEN [text |-> <<>>, hasHeader |-> FALSE, count |-> 0]
    ELSE LET lines == LinesOf(xyz)
             entries == ParseEntries(xyz)
         IN  IF entries = <<>>
             THEN [text |-> Join(lines, <<"\n">>), hasHeader |-> FALSE, count |-> 0]
             ELSE [text |-> Join(RowsOf(entries, decimals, atomCol), <<"\n">>),
                   hasHeader |-> HasHeader(lines),
                   count |-> Len(entries)]

\* formatXYZ(xyz, decimals, atomCol): the returned object, or
\* [threw |-> "RangeError"] when col's toFixed throws.
formatXYZ(xyz, decimals, atomCol) ==
    IF xyz = <<>> THEN [text |-> <<>>, hasHeader |-> FALSE, count |-> 0]
    ELSE LET lines == LinesOf(xyz)
             entries == ParseEntries(xyz)
         IN  IF entries = <<>>
             THEN [text |-> xyz, hasHeader |-> FALSE, count |-> 0]
             ELSE IF decimals < 0 \/ decimals > ToFixedMaxDigits
             THEN [threw |-> "RangeError"]
             ELSE [text |-> Join(RowsOf(entries, decimals, atomCol), <<"\n">>),
                   hasHeader |-> HasHeader(lines),
                   count |-> Len(entries)]

RECURSIVE AtomsFrom(_, _, _)
\* The for loop of parseXYZAtoms from index i on (i is 0-based, as in the code;
\* out is the array the code calls atoms).
AtomsFrom(coordLines, i, out) ==
    IF ~(i < Len(coordLines)) THEN out
    ELSE LET parts == SplitWS(Trim(coordLines[i + 1]))
             elem == parts[1]
             x == NumberAt(parts, 2)
             y == NumberAt(parts, 3)
             z == NumberAt(parts, 4)
         IN  AtomsFrom(coordLines, i + 1,
                 IF elem # <<>> /\ IsFinite(x) /\ IsFinite(y) /\ IsFinite(z)
                 THEN Append(out, [idx |-> i + 1, elem |-> elem])
                 ELSE out)

\* parseXYZAtoms(xyz): xyz is a string here, and a null or undefined
\* geometry is the empty string ("!xyz" holds of both).
parseXYZAtoms(xyz) ==
    IF xyz = <<>> THEN <<>>
    ELSE AtomsFrom(CoordLines(LinesOf(xyz)), 0, <<>>)

\* The width of a row number in the index gutter.
GutterWidth == 3

\* The decimals every call site passes.
Decimals == 6

\* indexGutter: n = (showZ ? prettyZ.count : prettySym.count) ?? 0;
\* the numbers 1..n, each padded to 3, joined by newlines; "" when n = 0.
IndexGutterOf(sz, pSym, pZ) ==
    LET n == IF sz THEN pZ.count ELSE pSym.count
    IN  IF n # 0
        THEN Join([i \in 1..n |-> PadStart(NatToString(i), GutterWidth)], <<"\n">>)
        ELSE <<>>

\* displayXYZ = showZ ? prettyZ.text : prettySym.text
displayXYZ == IF showZ THEN prettyZ.text ELSE prettySym.text

-----------------------------------------------------------------------------
(* ConformerViewer3D: the text handed to the 3D viewer.                    *)

\* String.prototype.split(/\r?\n/): the pieces between the newlines, a CR
\* right before a newline being part of the separator.
SplitLines(s) ==
    LET parts == SplitNL(s)
    IN  [k \in 1..Len(parts) |->
            IF k < Len(parts) /\ parts[k] # <<>> /\ parts[k][Len(parts[k])] = "\r"
            THEN SubSeq(parts[k], 1, Len(parts[k]) - 1)
            ELSE parts[k]]

\* ensureXYZHeader(xyz): xyz itself when its first line starts with an
\* integer, else a count of the non-empty lines and a comment line put
\* before the lines.
ensureXYZHeader(xyz) ==
    LET lines == SplitLines(Trim(xyz))
        n == ParseInt(Trim(lines[1]))
        nonEmpty == Len(SelectSeq(lines, LAMBDA ln : ln # <<>>))
    IN  IF ~n.nan THEN xyz
        ELSE NatToString(nonEmpty) \o <<"\n">>
                 \o <<"c", "o", "n", "f", "o", "r", "m", "e", "r">> \o <<"\n">>
                 \o Join(lines, <<"\n">>) \o <<"\n">>

-----------------------------------------------------------------------------
(* The geometry texts drawn as the server's geom_xyz.                      *)

\* "H 0 0 0": a one-letter symbol
LinePlain ==
    <<"H", " ", "0", " ", "0", " ", "0">>

\* "  Cl\t1.5  -2.25 0.0000004\r": a two-letter symbol, tabs, runs of blanks, a CR, a value below 1e-6
LineTwoChar ==
    <<" ", " ", "C", "l", "\t", "1", ".", "5", " ", " ", "-", "2", ".", "2", "5", " ", "0", ".", "0", "0", "0", "0", "0", "0", "4", "\r">>

\* "bad line\r": no coordinates, a CR
LineBad ==
    <<"b", "a", "d", " ", "l", "i", "n", "e", "\r">>

\* "": an empty line
LineBlank ==
    <<>>

\* "1": an atom count
LineCount ==
    <<"1">>

\* "1 0 0 0": an atomic number as the label
LineNumericLabel ==
    <<"1", " ", "0", " ", "0", " ", "0">>

\* "Og 100000 -10000 1e21": Z = 118 and coordinates of 13, 13 and 22 or more characters
LineWide ==
    <<"O", "g", " ", "1", "0", "0", "0", "0", "0", " ", "-", "1", "0", "0", "0", "0", " ", "1", "e", "2", "1">>

\* "CL 10000 -0.5 .25": a symbol in the wrong case, a coordinate of 12 characters
LineUpper ==
    <<"C", "L", " ", "1", "0", "0", "0", "0", " ", "-", "0", ".", "5", " ", ".", "2", "5">>

\* "valueOf 0 0 0": a label that names a property of Object.prototype
LineInherited ==
    <<"v", "a", "l", "u", "e", "O", "f", " ", "0", " ", "0", " ", "0">>

\* "N 0 Infinity 0": a coordinate that is not finite
LineNonFinite ==
    <<"N", " ", "0", " ", "I", "n", "f", "i", "n", "i", "t", "y", " ", "0">>

LinePool ==
    {LinePlain, LineTwoChar, LineBad, LineBlank, LineCount, LineNumericLabel,
     LineWide, LineUpper, LineInherited, LineNonFinite}

\* Every text of at most MaxLines lines of the pool, joined by newlines.
Texts ==
    {Join(ls, <<"\n">>) : ls \in UNION {[1..n -> LinePool] : n \in 0..MaxLines}}

-----------------------------------------------------------------------------
(* ConformerPage: the fetch of the conformer and the geometry tab.         *)

\* geom_xyz before the fetch of the effect resolves (data is null).
NoData == <<"<", "n", "u", "l", "l", ">">>

\* data?.geom_xyz ?? ""
GeomText(g) == IF g = NoData THEN <<>> ELSE g

InitXYZ ==
    /\ geom_xyz = NoData
    /\ showZ = FALSE
    /\ prettySym = formatXYZ(<<>>, Decimals, "sym")
    /\ prettyZ = formatXYZ(<<>>, Decimals, "z")
    /\ atomList = parseXYZAtoms(<<>>)
    /\ indexGutter = <<>>

\* The effect on [id]: the fetch resolves and setData(body) runs; the memos
\* on data?.geom_xyz are recomputed in the render that follows.
SetData ==
    /\ geom_xyz = NoData
    /\ \E text \in Texts :
        /\ geom_xyz' = text
        /\ prettySym' = formatXYZ(text, Decimals, "sym")
        /\ prettyZ' = formatXYZ(text, Decimals, "z")
        /\ atomList' = parseXYZAtoms(text)
        /\ indexGutter' = IndexGutterOf(showZ, prettySym', prettyZ')
    /\ UNCHANGED <<showZ, params, url, nativeCode, appVars>>

\* The Switch of the geometry tab: setShowZ, then the memo on showZ.
ToggleShowZ ==
    /\ geom_xyz # NoData
    /\ showZ' = ~showZ
    /\ indexGutter' = IndexGutterOf(showZ', prettySym, prettyZ)
    /\ UNCHANGED <<geom_xyz, prettySym, prettyZ, atomList, params, url, nativeCode, appVars>>

\* "Back to search" and the opening of another conformer: the page is
\* unmounted and mounted anew, every useState back at its initial value.
Remount ==
    /\ geom_xyz # NoData
    /\ geom_xyz' = NoData
    /\ showZ' = FALSE
    /\ prettySym' = formatXYZ(<<>>, Decimals, "sym")
    /\ prettyZ' = formatXYZ(<<>>, Decimals, "z")
    /\ atomList' = parseXYZAtoms(<<>>)
    /\ indexGutter' = <<>>
    /\ UNCHANGED <<params, url, nativeCode, appVars>>

-----------------------------------------------------------------------------
(* buildUrl.                                                               *)

Undefined == [t |-> "undefined"]

Num(n) == [t |-> "number", n |-> n]

Bool(b) == [t |-> "boolean", b |-> b]

Str(s) == [t |-> "string", s |-> s]

\* API_BASE: "/api/" resolved against window.location.origin (the origin,
\* which the deployment decides, is left out of the URLs of the model).
API_BASE == <<"/", "a", "p", "i", "/">>

\* The characters the application/x-www-form-urlencoded serializer of
\* URLSearchParams escapes, among those drawn here; a blank becomes "+", and
\* letters, digits, "*", "-", "." and "_" are kept.
FormEscapes ==
    {<<",", <<"%", "2", "C">>>>,
     <<"=", <<"%", "3", "D">>>>,
     <<"&", <<"%", "2", "6">>>>,
     <<"#", <<"%", "2", "3">>>>,
     <<"+", <<"%", "2", "B">>>>,
     <<"(", <<"%", "2", "8">>>>,
     <<")", <<"%", "2", "9">>>>,
     <<"[", <<"%", "5", "B">>>>,
     <<"]", <<"%", "5", "D">>>>,
     <<"@", <<"%", "4", "0">>>>,
     <<"/", <<"%", "2", "F">>>>,
     <<"%", <<"%", "2", "5">>>>,
     <<"?", <<"%", "3", "F">>>>}

FormEncodeChar(c) ==
    IF c = " " THEN <<"+">>
    ELSE IF \E e \in FormEscapes : e[1] = c
    THEN (CHOOSE e \in FormEscapes : e[1] = c)[2]
    ELSE <<c>>

FormEncode(s) == Concat([i \in 1..Len(s) |-> FormEncodeChar(s[i])])

\* A canonical array index: "0", or digits without a leading zero (below
\* 2^32 - 1; the keys drawn have one digit, and nine are allowed for here).
IsArrayIndex(k) ==
    /\ k # <<>>
    /\ \A i \in 1..Len(k) : IsDigit(k[i])
    /\ (Len(k) = 1 \/ k[1] # "0")
    /\ Len(k) <= 9

RECURSIVE SortByIndex(_)
\* Entries with array-index keys, in ascending order of the index.
SortByIndex(es) ==
    IF es = <<>> THEN <<>>
    ELSE LET val(e) == DigitsToNat(DigitsOf(e.k, 1, Len(e.k) + 1), 0)
             m == CHOOSE i \in 1..Len(es) :
                      \A j \in 1..Len(es) : val(es[i]) <= val(es[j])
         IN  <<es[m]>> \o SortByIndex(SubSeq(es, 1, m - 1) \o SubSeq(es, m + 1, Len(es)))

\* Variant of Object.entries that keeps the order of creation for every key.
ObjectEntriesInsertionOrder(obj) == obj

\* Object.entries(params): the own properties, array-index keys first in
\* ascending order, then the other keys in the order of their creation.
ObjectEntries(obj) ==
    SortByIndex(SelectSeq(obj, LAMBDA e : IsArrayIndex(e.k)))
        \o SelectSeq(obj, LAMBDA e : ~IsArrayIndex(e.k))

\* params[k] = v: a new property is created last, an existing one keeps
\* its place.
SetProperty(obj, k, v) ==
    IF \E i \in 1..Len(obj) : obj[i].k = k
    THEN [i \in 1..Len(obj) |-> IF obj[i].k = k THEN [k |-> k, v |-> v] ELSE obj[i]]
    ELSE Append(obj, [k |-> k, v |-> v])

\* Mutant of IsEmitted: the test written as "if (v)", which also drops 0
\* and false.
IsEmittedIfTruthy(v) ==
    /\ v.t # "undefined" /\ v.t # "null" /\ Len(ToStr(v)) > 0
    /\ v # [t |-> "boolean", b |-> FALSE]
    /\ v # [t |-> "number", n |-> 0]

\* The test of the loop body:
\* v !== undefined && v !== null && String(v).length > 0
IsEmitted(v) == v.t # "undefined" /\ v.t # "null" /\ Len(ToStr(v)) > 0

\* u.searchParams after the loop: set(k, String(v)) for every entry that
\* passes the test (the keys of an object are distinct, so set appends).
SearchParamsOf(obj) ==
    LET kept == SelectSeq(ObjectEntries(obj), LAMBDA e : IsEmitted(e.v))
    IN  [i \in 1..Len(kept) |-> [k |-> kept[i].k, v |-> ToStr(kept[i].v)]]

\* The serialization of u.searchParams: name=value pairs joined by "&".
QueryString(sp) ==
    Join([i \in 1..Len(sp) |-> FormEncode(sp[i].k) \o <<"=">> \o FormEncode(sp[i].v)],
         <<"&">>)

\* buildUrl(path, params): u.toString(), the query after a "?" when there
\* is one.
buildUrl(path, obj) ==
    LET search == QueryString(SearchParamsOf(obj))
    IN  API_BASE \o path \o (IF search = <<>> THEN <<>> ELSE <<"?">> \o search)

\* The part of a URL after its first "?" ("" when it has none).
QueryOf(u) ==
    IF \E i \in 1..Len(u) : u[i] = "?"
    THEN SubSeq(u, (CHOOSE i \in 1..Len(u) :
                        u[i] = "?" /\ \A j \in 1..(i - 1) : u[j] # "?") + 1, Len(u))
    ELSE <<>>

-----------------------------------------------------------------------------
(* The callers of buildUrl: a parameter object is filled and handed over.  *)

SearchPath == <<"s", "p", "e", "c", "i", "e", "s", "/", "s", "e", "a", "r", "c", "h">>

Paths == {SearchPath}

\* Keys drawn for the parameter object: names, and two that are array
\* indices, which Object.entries puts first.
ParamKeys == {<<"a">>, <<"b">>, <<"1">>, <<"2">>}

ParamValues ==
    {Num(1), Num(0), Bool(FALSE), Undefined, Null, Str(<<>>), Str(<<"x">>)}

\* No URL has been built from params yet.
NoUrl == <<>>

InitUrl ==
    /\ params = <<>>
    /\ url = NoUrl

\* A property of the parameter object is written (an entry of the object
\* literal, or an assignment params.k = v); the callers write each key once.
SetParam ==
    /\ url = NoUrl
    /\ \E k \in ParamKeys \ {params[i].k : i \in 1..Len(params)}, v \in ParamValues :
        /\ Len(SetProperty(params, k, v)) <= MaxParams
        /\ params' = SetProperty(params, k, v)
    /\ UNCHANGED <<url, xyzVars, nativeCode, appVars>>

\* const url = buildUrl(path, params)
BuildUrl ==
    /\ url = NoUrl
    /\ \E path \in Paths : url' = buildUrl(path, params)
    /\ UNCHANGED <<params, xyzVars, nativeCode, appVars>>

\* The caller returns; its next call starts from a new parameter object.
NewCall ==
    /\ url # NoUrl
    /\ params' = <<>>
    /\ url' = NoUrl
    /\ UNCHANGED <<xyzVars, nativeCode, appVars>>

-----------------------------------------------------------------------------
(* The search page (App): looksLikeInchiKey, doSearch, loadConformers and  *)
(* the three effects.                                                      *)

Letters ==
    {"A", "B", "C", "D", "E", "F", "G", "H", "I", "J", "K", "L", "M", "N",
     "O", "P", "Q", "R", "S", "T", "U", "V", "W", "X", "Y", "Z",
     "a", "b", "c", "d", "e", "f", "g", "h", "i", "j", "k", "l", "m", "n",
     "o", "p", "q", "r", "s", "t", "u", "v", "w", "x", "y", "z"}

\* looksLikeInchiKey(s): /^[A-Z]{14}-[A-Z]{10}-[A-Z]$/i.test(s.trim())
looksLikeInchiKey(s) ==
    LET t == Trim(s)
    IN  /\ Len(t) = 27
        /\ \A i \in 1..27 :
               IF i \in {15, 26} THEN t[i] = "-" ELSE t[i] \in Letters

\* setError("This field expects a SMILES, not an InChIKey.")
InchiKeyMessage == 
    <<"T", "h", "i", "s", " ", "f", "i", "e", "l", "d", " ", "e", "x", "p",
      "e", "c", "t", "s", " ", "a", " ", "S", "M", "I", "L", "E", "S", ",",
      " ", "n", "o", "t", " ", "a", "n", " ", "I", "n", "C", "h", "I", "K",
      "e", "y", ".">>

\* The message of the Error thrown for a response that is not ok.
HttpError == 
    <<"5", "0", "0", " ", "I", "n", "t", "e", "r", "n", "a", "l", " ", "S",
      "e", "r", "v", "e", "r", " ", "E", "r", "r", "o", "r">>

\* HEAVY_ATOM_CAP = 80
HEAVY_ATOM_CAP == 80

\* elemMode, tsElemMode, tsRequireImaginary and tsEnergyWindow keep the
\* values they are created with.
elemMode == <<"a", "l", "l">>

tsElemMode == <<"a", "l", "l">>

tsRequireImaginary == TRUE

tsEnergyWindow == <<10, 18>>

\* limit: 500 of loadConformers
ConformersLimit == 500

\* The delay of the debounce timer, 300 ms, is one tick.
DebounceTicks == 1

\* The names of the query parameters doSearch and loadConformers set.
Key ==
    [limit |->
         <<"l", "i", "m", "i", "t">>,
     offset |->
         <<"o", "f", "f", "s", "e", "t">>,
     elements |->
         <<"e", "l", "e", "m", "e", "n", "t", "s">>,
     elem_mode |->
         <<"e", "l", "e", "m", "_", "m", "o", "d", "e">>,
     max_heavy_atoms |->
         <<"m", "a", "x", "_", "h", "e", "a", "v", "y", "_", "a", "t", "o", "m", "s">>,
     include_ts |->
         <<"i", "n", "c", "l", "u", "d", "e", "_", "t", "s">>,
     ts_only |->
         <<"t", "s", "_", "o", "n", "l", "y">>,
     require_imag |->
         <<"r", "e", "q", "u", "i", "r", "e", "_", "i", "m", "a", "g">>,
     de_min_kcal |->
         <<"d", "e", "_", "m", "i", "n", "_", "k", "c", "a", "l">>,
     de_max_kcal |->
         <<"d", "e", "_", "m", "a", "x", "_", "k", "c", "a", "l">>,
     representative_only |->
         <<"r", "e", "p", "r", "e", "s", "e", "n", "t", "a", "t", "i", "v", "e", "_", "o", "n", "l", "y">>,
     is_ts |->
         <<"i", "s", "_", "t", "s">>,
     lot_id |->
         <<"l", "o", "t", "_", "i", "d">>,
     well_rank |->
         <<"w", "e", "l", "l", "_", "r", "a", "n", "k">>]

\* The state of one render of App, as a record.
AppState ==
    [mode |-> mode, q |-> q, tsSmiles |-> tsSmiles, atoms |-> atoms,
     tsAtoms |-> tsAtoms, maxHeavy |-> maxHeavy, limit |-> limit,
     offset |-> offset, species |-> species, searchLoading |-> searchLoading,
     error |-> error, selectedId |-> selectedId, confs |-> confs,
     confLoading |-> confLoading, repOnly |-> repOnly, nonTSOnly |-> nonTSOnly,
     lotId |-> lotId, wellRank |-> wellRank, timers |-> timers,
     inflight |-> inflight, issued |-> issued, confsFrom |-> confsFrom]

\* fetch(buildUrl(path, ps)): one more request in flight, kept as the
\* arguments its URL is built from.  seq numbers the requests in the order
\* they are sent; kind, id, origin, mode, limit, offset and burst record
\* what the request is for and what sent it.
Fetch(S, kind, id, path, ps, origin, lim, off, burst) ==
    [S EXCEPT !.inflight = @ \cup {[seq |-> S.issued + 1, kind |-> kind, id |-> id,
                                    path |-> path, params |-> ps,
                                    origin |-> origin, mode |-> S.mode,
                                    limit |-> lim, offset |-> off, burst |-> burst]},
              !.issued = @ + 1]

\* The URL of the request r: const url = buildUrl(path, params).
RequestUrl(r) == buildUrl(r.path, r.params)

\* The params object doSearch fills (lines 439-471).
SearchParams(S, effLimit, effOffset, molQ, tsQ) ==
    LET p0 == <<[k |-> Key.limit, v |-> Num(effLimit)],
                [k |-> Key.offset, v |-> Num(effOffset)]>>
        elems(p, els, em) ==
            SetProperty(SetProperty(p, Key.elements, Str(Join(els, <<",">>))),
                        Key.elem_mode, Str(em))
    IN  IF S.mode = "molecules"
        THEN LET p1 == IF molQ # <<>> THEN SetProperty(p0, <<"q">>, Str(molQ))
                       ELSE LET p2 == IF S.atoms # <<>> THEN elems(p0, S.atoms, elemMode)
                                      ELSE p0
                            IN  IF S.maxHeavy # HEAVY_ATOM_CAP
                                THEN SetProperty(p2, Key.max_heavy_atoms, Num(S.maxHeavy))
                                ELSE p2
             IN  SetProperty(p1, Key.include_ts, Bool(FALSE))
        ELSE IF S.mode = "ts"
        THEN LET p1 == SetProperty(p0, Key.ts_only, Bool(TRUE))
                 p2 == IF tsQ # <<>> THEN SetProperty(p1, <<"q">>, Str(tsQ))
                       ELSE IF S.tsAtoms # <<>> THEN elems(p1, S.tsAtoms, tsElemMode)
                       ELSE p1
                 p3 == IF tsRequireImaginary
                       THEN SetProperty(p2, Key.require_imag, Bool(TRUE))
                       ELSE p2
             IN  SetProperty(SetProperty(p3, Key.de_min_kcal, Num(tsEnergyWindow[1])),
                             Key.de_max_kcal, Num(tsEnergyWindow[2]))
        ELSE IF molQ # <<>> THEN SetProperty(p0, <<"q">>, Str(molQ))
        ELSE p0

\* No override of limit or offset: doSearch() of the Enter key, and the
\* click event the Query button hands over, which has neither property.
NoOverrides == [limit |-> Undefined, offset |-> Undefined]

\* doSearch(overrides), up to its await: the state it leaves and the
\* request it sends, or the InChIKey error without a request.
doSearch(S, overrides, origin) ==
    LET S1 == [S EXCEPT !.selectedId = Null, !.confs = <<>>, !.confLoading = FALSE,
                        !.confsFrom = 0]
        molQ == Trim(S.q)
        tsQ == Trim(S.tsSmiles)
    IN  IF molQ # <<>> /\ looksLikeInchiKey(molQ)
        THEN [S1 EXCEPT !.error = Str(InchiKeyMessage)]
        ELSE LET effLimit == IF overrides.limit # Undefined THEN overrides.limit.n
                             ELSE S.limit
                 effOffset == IF overrides.offset # Undefined THEN overrides.offset.n
                              ELSE S.offset
                 S2 == [S1 EXCEPT !.searchLoading = TRUE, !.error = Null]
             IN  Fetch(S2, "search", 0,
                       SearchPath, SearchParams(S, effLimit, effOffset, molQ, tsQ),
                       origin, effLimit, effOffset, FALSE)

\* `species/${id}/conformers`
ConformersPath(id) ==
    <<"s", "p", "e", "c", "i", "e", "s", "/">> \o NatToString(id)
        \o <<"/", "c", "o", "n", "f", "o", "r", "m", "e", "r", "s">>

\* The object literal loadConformers hands to buildUrl; C is the render
\* whose closure the call runs in.
ConformerParams(C) ==
    <<[k |-> Key.representative_only, v |-> IF C.repOnly THEN Bool(TRUE) ELSE Undefined],
      [k |-> Key.is_ts, v |-> IF C.nonTSOnly THEN Bool(FALSE) ELSE Undefined],
      [k |-> Key.lot_id,
       v |-> IF C.lotId = Null \/ C.lotId = Str(<<>>) THEN Undefined ELSE C.lotId],
      [k |-> Key.well_rank, v |-> IF C.wellRank = Null THEN Undefined ELSE C.wellRank],
      [k |-> Key.limit, v |-> Num(ConformersLimit)]>>

\* loadConformers(id), up to its await, called from the render C.
loadConformers(S, id, C, origin, burst) ==
    Fetch([S EXCEPT !.selectedId = Num(id), !.confLoading = TRUE, !.error = Null],
          "conformers", id, ConformersPath(id), ConformerParams(C),
          origin, ConformersLimit, 0, burst)

\* Variant of clearTimeout that leaves the timer pending (a debounce effect
\* without its cleanup).
ClearTimeoutForgotten(ts) == ts

\* return () => clearTimeout(t): the pending timer of the effect is dropped.
ClearTimeout(ts) == {}

\* Variant of the checkbox effect that calls the loadConformers of the
\* render before, with the checkbox values of that render.
CheckboxEffectStaleClosure(prev, cur, acc) ==
    IF <<cur.repOnly, cur.nonTSOnly, cur.selectedId>>
           # <<prev.repOnly, prev.nonTSOnly, prev.selectedId>>
       /\ cur.selectedId # Null
    THEN loadConformers(acc, cur.selectedId.n, prev, "effect", FALSE)
    ELSE acc

\* useEffect(..., [repOnly, nonTSOnly, selectedId]): reload at once.
CheckboxEffect(prev, cur, acc) ==
    IF <<cur.repOnly, cur.nonTSOnly, cur.selectedId>>
           # <<prev.repOnly, prev.nonTSOnly, prev.selectedId>>
       /\ cur.selectedId # Null
    THEN loadConformers(acc, cur.selectedId.n, cur, "effect", FALSE)
    ELSE acc

\* useEffect(..., [lotId, wellRank, selectedId]): the cleanup of the last
\* run, then a timer of 300 ms when a species is selected.  A timer keeps
\* the values of the render that set it; burst tells that it replaced a
\* timer still pending.
DebounceEffect(prev, cur, acc) ==
    IF <<cur.lotId, cur.wellRank, cur.selectedId>>
           # <<prev.lotId, prev.wellRank, prev.selectedId>>
    THEN LET kept == ClearTimeout(acc.timers)
         IN  IF cur.selectedId = Null THEN [acc EXCEPT !.timers = kept]
             ELSE [acc EXCEPT !.timers = kept \cup
                      {[left |-> DebounceTicks, id |-> cur.selectedId.n,
                        repOnly |-> cur.repOnly, nonTSOnly |-> cur.nonTSOnly,
                        lotId |-> cur.lotId, wellRank |-> cur.wellRank,
                        burst |-> acc.timers # {}]}]
    ELSE acc

\* Variant of the mode effect that forgets setOffset(0).
ModeEffectKeepsOffset(prev, cur, acc) ==
    IF cur.mode # prev.mode
    THEN [acc EXCEPT !.species = <<>>, !.selectedId = Null, !.confs = <<>>,
                     !.error = Null, !.confsFrom = 0]
    ELSE acc

\* useEffect(..., [mode]): switching tabs resets the current results.
ModeEffect(prev, cur, acc) ==
    IF cur.mode # prev.mode
    THEN [acc EXCEPT !.species = <<>>, !.selectedId = Null, !.confs = <<>>,
                     !.offset = 0, !.error = Null, !.confsFrom = 0]
    ELSE acc

\* The effects of the render cur that follows the render prev, in the order
\* of their declaration.
Effects(prev, cur) ==
    ModeEffect(prev, cur, DebounceEffect(prev, cur, CheckboxEffect(prev, cur, cur)))

\* The state an event handler leaves (cur, after prev) once React has run
\* the effects of the renders it causes; the second render has those of the
\* state the effects of the first one set.
Settle(prev, cur) == Effects(cur, Effects(prev, cur))

-----------------------------------------------------------------------------
(* The search page (App): its state, the user's events, the timer and the  *)
(* responses of the server.                                                *)

Modes == {"molecules", "reactions", "ts"}

\* "BSYNRYMUTXBXSQ-UHFFFAOYSA-N", the InChIKey of aspirin
AspirinInchiKey ==
    <<"B", "S", "Y", "N", "R", "Y", "M", "U", "T", "X", "B", "X", "S", "Q", "-",
      "U", "H", "F", "F", "F", "A", "O", "Y", "S", "A", "-", "N">>

\* The texts typed into the SMILES fields: nothing, ethanol, an InChIKey.
SmilesPool == {<<>>, <<"C", "C", "O">>, AspirinInchiKey}

\* The element chips chosen: none, or carbon.
AtomChips == {<<>>, <<<<"C">>>>}

\* The positions of the heavy atom slider: the cap, and one below it.
HeavyAtomChoices == {HEAVY_ATOM_CAP, 40}

\* The page sizes chosen, two of the four options of the select.
PageSizes == {10, 25}

\* The species the user asks the conformers of: those of the first rows.
SpeciesIds == {1, 2}

\* The text typed into the LoT ID field.
LotIds == {Str(<<"7">>)}

\* The values typed into the well rank field; it is null when empty.
WellRanks == {Null, Num(1)}

InitApp ==
    /\ mode = "molecules"
    /\ q = <<>>
    /\ tsSmiles = <<>>
    /\ atoms = <<>>
    /\ tsAtoms = <<>>
    /\ maxHeavy = HEAVY_ATOM_CAP
    /\ limit = 10
    /\ offset = 0
    /\ species = <<>>
    /\ searchLoading = FALSE
    /\ error = Null
    /\ selectedId = Null
    /\ confs = <<>>
    /\ confLoading = FALSE
    /\ repOnly = FALSE
    /\ nonTSOnly = FALSE
    /\ lotId = Null
    /\ wellRank = Null
    /\ timers = {}
    /\ inflight = {}
    /\ issued = 0
    /\ confsFrom = 0

\* The next state of App is the record S.
Commit(S) ==
    /\ mode' = S.mode
    /\ q' = S.q
    /\ tsSmiles' = S.tsSmiles
    /\ atoms' = S.atoms
    /\ tsAtoms' = S.tsAtoms
    /\ maxHeavy' = S.maxHeavy
    /\ limit' = S.limit
    /\ offset' = S.offset
    /\ species' = S.species
    /\ searchLoading' = S.searchLoading
    /\ error' = S.error
    /\ selectedId' = S.selectedId
    /\ confs' = S.confs
    /\ confLoading' = S.confLoading
    /\ repOnly' = S.repOnly
    /\ nonTSOnly' = S.nonTSOnly
    /\ lotId' = S.lotId
    /\ wellRank' = S.wellRank
    /\ timers' = S.timers
    /\ inflight' = S.inflight
    /\ issued' = S.issued
    /\ confsFrom' = S.confsFrom

\* An event handler leaves the state cur; the effects follow, and no more
\* than quota requests are sent in a run of the model.
Handle(cur) ==
    LET next == Settle(AppState, cur)
    IN  /\ next.issued <= quota
        /\ Commit(next)
        /\ UNCHANGED <<xyzVars, urlVars, nativeCode, quota>>

\* <Tabs onValueChange={(v) => setMode(v)}>
SetMode ==
    \E m \in Modes \ {mode} : Handle([AppState EXCEPT !.mode = m])

\* onChange={(e) => setQ(e.target.value)} of the SMILES field, which the
\* Molecules tab shows.
SetQ ==
    /\ mode = "molecules"
    /\ \E s \in SmilesPool \ {q} : Handle([AppState EXCEPT !.q = s])

\* onChange={(e) => setTSSmiles(e.target.value)} of the TS SMILES field,
\* which the TS tab shows.
SetTSSmiles ==
    /\ mode = "ts"
    /\ \E s \in SmilesPool \ {tsSmiles} : Handle([AppState EXCEPT !.tsSmiles = s])

\* The element chips of the Molecules tab: setAtoms
SetAtoms ==
    /\ mode = "molecules"
    /\ \E a \in AtomChips \ {atoms} : Handle([AppState EXCEPT !.atoms = a])

\* The element chips of the TS tab: setTsAtoms
SetTsAtoms ==
    /\ mode = "ts"
    /\ \E a \in AtomChips \ {tsAtoms} : Handle([AppState EXCEPT !.tsAtoms = a])

\* The heavy atom slider of the Molecules tab: setMaxHeavy
SetMaxHeavy ==
    /\ mode = "molecules"
    /\ \E h \in HeavyAtomChoices \ {maxHeavy} :
           Handle([AppState EXCEPT !.maxHeavy = h])

\* <Button onClick={doSearch} disabled={searchLoading}>
QueryButton ==
    /\ ~searchLoading
    /\ Handle(doSearch(AppState, NoOverrides, "query"))

\* onKeyDown={(e) => e.key === "Enter" && doSearch()} of the SMILES field of
\* the Molecules tab and of the TS tab.
EnterKey ==
    /\ mode \in {"molecules", "ts"}
    /\ Handle(doSearch(AppState, NoOverrides, "enter"))

\* The page size select: setLimit(v); setOffset(0); doSearch({limit: v, offset: 0})
SetPageSize ==
    \E v \in PageSizes \ {limit} :
        Handle(doSearch([AppState EXCEPT !.limit = v, !.offset = 0],
                        [limit |-> Num(v), offset |-> Num(0)], "pagesize"))

\* Prev: disabled when offset is 0.
PrevPage ==
    /\ offset # 0
    /\ LET newOffset == Max(0, offset - limit)
       IN  Handle(doSearch([AppState EXCEPT !.offset = newOffset],
                           [limit |-> Undefined, offset |-> Num(newOffset)], "prev"))

\* Next: disabled when the page shown is not full.
NextPage ==
    /\ ~(Len(species) < limit)
    /\ LET newOffset == offset + limit
       IN  /\ newOffset <= MaxPage * limit
           /\ Handle(doSearch([AppState EXCEPT !.offset = newOffset],
                              [limit |-> Undefined, offset |-> Num(newOffset)], "next"))

\* "View conformers" of a row: onClick={() => loadConformers(sp.species_id)}
ViewConformers ==
    \E id \in SpeciesIds :
        /\ \E i \in 1..Len(species) : species[i] = id
        /\ Handle(loadConformers(AppState, id, AppState, "click", FALSE))

\* The two checkboxes of the conformer filters.
ToggleCheckbox ==
    \/ Handle([AppState EXCEPT !.repOnly = ~repOnly])
    \/ Handle([AppState EXCEPT !.nonTSOnly = ~nonTSOnly])

\* onChange={(e) => setLotId(e.target.value)}
SetLotId ==
    \E v \in LotIds \ {lotId} : Handle([AppState EXCEPT !.lotId = v])

\* onChange={(e) => setWellRank(e.target.value ? Number(e.target.value) : null)}
SetWellRank ==
    \E v \in WellRanks \ {wellRank} : Handle([AppState EXCEPT !.wellRank = v])

\* Time passes by one tick while a timer is pending and none is due.
Tick ==
    /\ timers # {}
    /\ \A t \in timers : t.left > 0
    /\ timers' = {[t EXCEPT !.left = @ - 1] : t \in timers}
    /\ UNCHANGED <<mode, q, tsSmiles, atoms, tsAtoms, maxHeavy, limit, offset,
                   species, searchLoading, error, selectedId, confs, confLoading,
                   repOnly, nonTSOnly, lotId, wellRank, inflight, issued,
                   quota, confsFrom, xyzVars, urlVars, nativeCode>>

\* The timer is due: () => { void loadConformers(selectedId) }, with the
\* values of the render that set the timer.
TimerFires ==
    \E t \in timers :
        /\ t.left = 0
        /\ Handle(loadConformers([AppState EXCEPT !.timers = @ \ {t}], t.id, t,
                                 "debounce", t.burst))

\* The response to a search arrives: the rest of doSearch after its await.
\* The rows are a full page, the species 1 to limit.
SearchResponse ==
    \E r \in inflight : \E ok \in BOOLEAN :
        /\ r.kind = "search"
        /\ Handle([AppState EXCEPT
               !.inflight = @ \ {r},
               !.species = IF ok THEN [i \in 1..r.limit |-> i] ELSE <<>>,
               !.error = IF ok THEN @ ELSE Str(HttpError),
               !.searchLoading = FALSE])

\* The response to a conformer request arrives: the rest of loadConformers
\* after its await.  The rows are those of the species asked for.
ConformersResponse ==
    \E r \in inflight : \E ok \in BOOLEAN :
        /\ r.kind = "conformers"
        /\ Handle([AppState EXCEPT
               !.inflight = @ \ {r},
               !.confs = IF ok THEN <<r.id>> ELSE <<>>,
               !.error = IF ok THEN @ ELSE Str(HttpError),
               !.confsFrom = r.seq,
               !.confLoading = FALSE])

-----------------------------------------------------------------------------
(* Specifications.                                                         *)

\* The engine the page runs in is any of those modelled.
InitEnv == nativeCode \in NativeCodeLayouts

\* The geometry tab and the query builder alone send no request.
Init == InitXYZ /\ InitUrl /\ InitEnv /\ InitApp /\ quota = 0

\* ConformerPage: the geometry tab.
Next == SetData \/ ToggleShowZ \/ Remount

Spec == Init /\ [][Next]_vars

\* The query builder and its callers.
NextUrl == SetParam \/ BuildUrl \/ NewCall

SpecUrl == Init /\ [][NextUrl]_vars

\* The search page formats no built-in function, so one engine stands for
\* all of them; n is the number of requests the run may send.
InitPage(n) ==
    InitXYZ /\ InitUrl /\ nativeCode = NativeCodeBody /\ InitApp /\ quota = n

\* The tabs of the search page: searches, pages and selections, and the
\* switch of the tab.  The timer a selection sets would send one request
\* more than MaxAppRequests allows (a search, the two of the selection, its
\* own): it stays pending here, and SpecDebounce lets it fire.
NextApp ==
    \/ SetMode \/ SetQ \/ SetMaxHeavy \/ QueryButton \/ NextPage \/ SearchResponse
    \/ ViewConformers \/ ConformersResponse

SpecApp == InitPage(MaxAppRequests) /\ [][NextApp]_vars

\* The SMILES fields of the tabs and the searches they start.
NextGuard ==
    SetMode \/ SetQ \/ SetTSSmiles \/ QueryButton \/ EnterKey \/ SearchResponse

SpecGuard == InitPage(MaxGuardRequests) /\ [][NextGuard]_vars

\* The conformer table of a species found by the first search, with its
\* checkboxes; the tab and the search fields keep their first values.
NextConf ==
    \/ QueryButton \/ SearchResponse \/ ViewConformers \/ ToggleCheckbox
    \/ Tick \/ TimerFires \/ ConformersResponse

SpecConf == InitPage(MaxRequests) /\ [][NextConf]_vars

\* The conformer table and its checkboxes again, with one request more:
\* a search, the two requests of a selection, that of a checkbox and that
\* of the timer.
SpecFilters == InitPage(MaxFilterRequests) /\ [][NextConf]_vars

\* The controls that start a search: the Query button, the Enter key, the
\* page size select and the Prev and Next buttons.
NextPaging ==
    \/ QueryButton \/ EnterKey \/ SetPageSize \/ PrevPage \/ NextPage
    \/ SearchResponse

SpecPaging == InitPage(MaxPagingRequests) /\ [][NextPaging]_vars

\* The conformer table with its LoT ID and well rank fields.
NextDebounce ==
    \/ QueryButton \/ SearchResponse \/ ViewConformers \/ SetLotId \/ SetWellRank
    \/ Tick \/ TimerFires \/ ConformersResponse

SpecDebounce == InitPage(MaxRequests) /\ [][NextDebounce]_vars

-----------------------------------------------------------------------------
(* Helpers of the properties: decimal comparison, and the reading of a     *)
(* query string.                                                           *)

\* |x| as L integer digits followed by F fraction digits.
Magnitude(x, L, F) ==
    Zeros(L - Len(x.int)) \o x.int \o x.frac \o Zeros(F - Len(x.frac))

RECURSIVE LessEqDigits(_, _, _)
\* a <= b for digit sequences of one length, compared from index i on.
LessEqDigits(a, b, i) ==
    IF i > Len(a) THEN TRUE
    ELSE IF a[i] < b[i] THEN TRUE
    ELSE IF a[i] > b[i] THEN FALSE
    ELSE LessEqDigits(a, b, i + 1)

RECURSIVE SubDigits(_, _, _, _)
\* a - b (a >= b, one length), from the last digit to the first.
SubDigits(a, b, i, borrow) ==
    IF i < 1 THEN <<>>
    ELSE LET d == a[i] - b[i] - borrow
         IN  IF d < 0 THEN Append(SubDigits(a, b, i - 1, 1), d + 10)
             ELSE Append(SubDigits(a, b, i - 1, 0), d)

RECURSIVE AddDigits(_, _, _, _)
\* a + b (one length), one digit longer than a.
AddDigits(a, b, i, carry) ==
    IF i < 1 THEN <<carry>>
    ELSE LET d == a[i] + b[i] + carry
         IN  Append(AddDigits(a, b, i - 1, d \div 10), d % 10)

\* |x - y| <= 10^(-e) for finite x and y.
Within(x, y, e) ==
    LET L == Max(Len(x.int), Len(y.int))
        F == Max(Max(Len(x.frac), Len(y.frac)), e)
        a == Magnitude(x, L, F)
        b == Magnitude(y, L, F)
        n == L + F
        diff == IF x.neg = y.neg
                THEN <<0>> \o (IF LessEqDigits(b, a, 1) THEN SubDigits(a, b, n, 0)
                               ELSE SubDigits(b, a, n, 0))
                ELSE AddDigits(a, b, n, 0)
        tol == [k \in 1..(n + 1) |-> IF k = L + 1 + e THEN 1 ELSE 0]
    IN  LessEqDigits(diff, tol, 1)

\* The name=value pairs of the query string of a URL, as <<name, value>>,
\* in the order of the query string.
QueryPairs(u) ==
    LET query == QueryOf(u)
    IN  IF query = <<>> THEN <<>>
        ELSE LET parts == SplitChar(query, "&")
             IN  [i \in 1..Len(parts) |->
                     LET kv == SplitChar(parts[i], "=")
                     IN  <<kv[1], Join(Tail(kv), <<"=">>)>>]

QueryKeys(u) == LET p == QueryPairs(u) IN {p[i][1] : i \in 1..Len(p)}

\* The geometry tab shows a conformer's geometry.
Loaded == geom_xyz # NoData

\* The coordinate line ln is well formed: at least four tokens, the first
\* not empty, the 2nd to 4th finite numbers.
AcceptsLine(ln) ==
    LET toks == SplitWS(Trim(ln))
    IN  /\ Len(toks) >= 4
        /\ toks[1] # <<>>
        /\ \A j \in 2..4 : IsFinite(StringToNumber(toks[j]))

\* The entries of the geometry on display.
ShownEntries == ParseEntries(GeomText(geom_xyz))

\* The coordinate lines of the geometry on display.
ShownCoordLines == CoordLines(LinesOf(GeomText(geom_xyz)))

\* The rows of a result of formatXYZ that has atoms.
RowsIn(pretty) == IF pretty.count = 0 THEN <<>> ELSE SplitNL(pretty.text)

\* s begins with the string t.
StartsWith(s, t) == Len(s) >= Len(t) /\ SubSeq(s, 1, Len(t)) = t

\* The first token of a line.
FirstToken(ln) == SplitWS(Trim(ln))[1]

\* The three coordinates of an entry.
CoordsOf(e) == <<e.x, e.y, e.z>>

\* The number of characters of r after its decimal point (0 without one).
FractionDigits(r) ==
    IF \E i \in 1..Len(r) : r[i] = "."
    THEN Len(r) - (CHOOSE i \in 1..Len(r) : r[i] = ".")
    ELSE 0

\* The values of decimals the coordinate fields are examined for.
CheckedDecimals == {0, 3, Decimals}

\* The comment lines put under a synthesized atom count.
HeaderComments == {<<>>, <<"c", "o", "m", "m", "e", "n", "t">>, LinePlain}

-----------------------------------------------------------------------------
(* Properties.                                                             *)

\* C1 (as claimed): whenever formatXYZ accepts at least one atom of the
\* text, parsing formatXYZ(text, 6, "sym").text again accepts the same
\* number of atoms, in the same order, with the same symbols and with every
\* coordinate within 1e-6 of the original.
RoundTripSym ==
    (Loaded /\ prettySym.count > 0) =>
        LET orig == ParseEntries(geom_xyz)
            back == ParseEntries(prettySym.text)
        IN  /\ Len(back) = Len(orig)
            /\ \A i \in 1..Len(orig) :
                /\ back[i].sym = orig[i].sym
                /\ Within(back[i].x, orig[i].x, Decimals)
                /\ Within(back[i].y, orig[i].y, Decimals)
                /\ Within(back[i].z, orig[i].z, Decimals)

\* C2 (as claimed): a key is in the query string only if its value is
\* defined and has a non-empty string form, and every key whose value is
\* false, undefined, null or "" is left out.
QueryOmitsFalse ==
    url # NoUrl =>
        \A i \in 1..Len(params) :
            LET v == params[i].v
                present == FormEncode(params[i].k) \in QueryKeys(url)
            IN  /\ present => (v # Undefined /\ v # Null /\ ToStr(v) # <<>>)
                /\ v \in {Bool(FALSE), Undefined, Null, Str(<<>>)} => ~present

\* C2 (amended): the query string holds exactly the keys whose value is
\* neither undefined nor null nor the empty string, each once and with the
\* string form of its value; the boolean false is written as "false".
QueryOmitsOnlyUndefinedNullEmpty ==
    url # NoUrl =>
        LET kept == {i \in 1..Len(params) :
                        params[i].v \notin {Undefined, Null, Str(<<>>)}}
            pairs == QueryPairs(url)
        IN  /\ Len(pairs) = Cardinality(kept)
            /\ \A i \in kept :
                /\ <<FormEncode(params[i].k), FormEncode(ToStr(params[i].v))>>
                       \in {pairs[j] : j \in 1..Len(pairs)}
                /\ params[i].v = Bool(FALSE) =>
                       <<FormEncode(params[i].k), FalseWord>>
                           \in {pairs[j] : j \in 1..Len(pairs)}

\* C2 (witness): the URL built for {a: 1, b: false, 2: undefined} has the
\* query a=1&b=false.
QueryWithFalseBuilt ==
    /\ url # NoUrl
    /\ params = <<[k |-> <<"a">>, v |-> Num(1)], [k |-> <<"b">>, v |-> Bool(FALSE)],
                  [k |-> <<"2">>, v |-> Undefined]>>
    /\ QueryOf(url) = <<"a", "=", "1", "&", "b", "=", "f", "a", "l", "s", "e">>

\* C3 (as claimed): in every row of formatXYZ, in both label modes, the
\* label field is exactly 2 characters, so the first coordinate field
\* begins at the row's third character.
LabelFieldIsTwoWide ==
    Loaded =>
        \A atomCol \in {"sym", "z"} :
            LET rows == RowsIn(IF atomCol = "z" THEN prettyZ ELSE prettySym)
            IN  \A i \in 1..Len(rows) :
                    LET e == ShownEntries[i]
                    IN  /\ Len(atomField(e.sym, atomCol)) = AtomFieldWidth
                        /\ SubSeq(rows[i], AtomFieldWidth + 1, Len(rows[i])) =
                               col(e.x, Decimals) \o col(e.y, Decimals)
                                   \o col(e.z, Decimals)

\* C4 (as claimed): the k-th atom parseXYZAtoms returns has idx = k, its
\* 1-based position among the accepted atoms, the number the index gutter
\* shows beside its row.
AtomIdxIsRank ==
    Loaded =>
        /\ \A k \in 1..Len(atomList) : atomList[k].idx = k
        /\ prettySym.count = Len(atomList)

\* C5: after header removal a coordinate line becomes a row if and only if
\* its first token is not empty and its 2nd, 3rd and 4th tokens are finite
\* numbers; the rows keep the order of their lines, and the lines dropped
\* change nothing for the others.
LineAcceptance ==
    Loaded =>
        LET cl == ShownCoordLines
            acc == SelectSeq(cl, AcceptsLine)
            rows == RowsIn(prettySym)
        IN  /\ prettySym.count = Len(acc)
            /\ prettyZ.count = Len(acc)
            /\ Len(rows) = Len(acc)
            /\ \A i \in 1..Len(acc) : StartsWith(rows[i], FirstToken(acc[i]))
            /\ EntriesOf(acc) = EntriesOf(cl)

\* C5 (witness): a line that is dropped stands between two lines that are
\* accepted, and two rows are shown.
DroppedLineBetweenAtoms ==
    /\ Loaded
    /\ prettySym.count = 2
    /\ Len(ShownCoordLines) = 3
    /\ AcceptsLine(ShownCoordLines[1])
    /\ ~AcceptsLine(ShownCoordLines[2])
    /\ AcceptsLine(ShownCoordLines[3])

\* C6: when no line of a non-empty text is accepted as an atom, formatXYZ
\* returns the text itself, character for character, with count = 0 and
\* hasHeader = false, in both label modes, a detected header included.
FallbackVerbatim ==
    (Loaded /\ geom_xyz # <<>>
        /\ \A i \in 1..Len(ShownCoordLines) : ~AcceptsLine(ShownCoordLines[i])) =>
        /\ prettySym = [text |-> geom_xyz, hasHeader |-> FALSE, count |-> 0]
        /\ prettyZ = [text |-> geom_xyz, hasHeader |-> FALSE, count |-> 0]

\* C6 (witness): a text with a CR and a detected header but no atom is
\* shown as it came.
HeaderOnlyFallback ==
    /\ Loaded
    /\ HasHeader(LinesOf(geom_xyz))
    /\ \E i \in 1..Len(geom_xyz) : geom_xyz[i] = "\r"
    /\ prettySym.count = 0
    /\ prettySym.text = geom_xyz
    /\ ~prettySym.hasHeader

\* C7 (as claimed): for n >= 1 well-formed atom lines, the text under a
\* correct header (the count n, then any comment) and the text without a
\* header give the same rows and the same count n; hasHeader is true for
\* the first and false for the second.
HeaderTolerance ==
    (Loaded /\ geom_xyz # <<>>
        /\ \A i \in 1..Len(SplitNL(geom_xyz)) : AcceptsLine(SplitNL(geom_xyz)[i])) =>
        LET n == Len(SplitNL(geom_xyz))
        IN  \A c \in HeaderComments :
                LET h == formatXYZ(NatToString(n) \o <<"\n">> \o c \o <<"\n">>
                                       \o geom_xyz, Decimals, "sym")
                IN  /\ h.count = n
                    /\ prettySym.count = n
                    /\ h.text = prettySym.text
                    /\ h.hasHeader
                    /\ ~prettySym.hasHeader

\* C8 (as claimed): a first line that is itself a well-formed atom line is
\* never taken for a header: hasHeader is false, the line gives the first
\* row, and no line after it is skipped.
FirstAtomLineIsNotHeader ==
    (Loaded /\ geom_xyz # <<>> /\ AcceptsLine(LinesOf(geom_xyz)[1])) =>
        LET lines == LinesOf(geom_xyz)
        IN  /\ ~prettySym.hasHeader
            /\ prettySym.count = Len(SelectSeq(lines, AcceptsLine))
            /\ StartsWith(RowsIn(prettySym)[1], FirstToken(lines[1]))
            /\ atomList[1].elem = FirstToken(lines[1])

\* C9 (as claimed): getZ gives the number 0 for every symbol that is not a
\* key of the table, and in "z" mode such an atom's label field is "0 ".
UnknownElementIsZero ==
    Loaded =>
        \A i \in 1..Len(ShownEntries) :
            LET sym == ShownEntries[i].sym
            IN  (\A e \in Z_FROM_SYMBOL : e[1] # sym) =>
                    /\ getZ(sym) = Num(0)
                    /\ atomField(sym, "z") = <<"0", " ">>
                    /\ StartsWith(RowsIn(prettyZ)[i], <<"0", " ">>)

\* C10 (as claimed): every coordinate field has exactly decimals digits
\* after the point and is exactly 12 characters wide and begins with a
\* blank, so with decimals = 6 a row is its label and 36 characters more
\* (38 characters with a label of 2).
CoordFieldIsTwelveWide ==
    Loaded =>
        /\ \A d \in CheckedDecimals : \A i \in 1..Len(ShownEntries) :
               \A j \in 1..3 :
                   LET f == col(CoordsOf(ShownEntries[i])[j], d)
                   IN  /\ Len(f) = ColWidth
                       /\ FractionDigits(f) = d
                       /\ f[1] = " "
        /\ \A i \in 1..Len(RowsIn(prettySym)) :
               Len(RowsIn(prettySym)[i]) =
                   Len(atomField(ShownEntries[i].sym, "sym")) + 3 * ColWidth

\* The values of decimals formatXYZ is called with when its totality is
\* examined: the least, the page's, the greatest toFixed takes, and one more.
TotalDecimals == {0, Decimals, ToFixedMaxDigits, ToFixedMaxDigits + 1}

\* C11 (as claimed): for the text on display, either label mode and every
\* non-negative integer decimals, formatXYZ returns an object with text,
\* hasHeader and count, and never throws.
FormatXYZIsTotal ==
    \A d \in TotalDecimals : \A atomCol \in {"sym", "z"} :
        DOMAIN formatXYZ(GeomText(geom_xyz), d, atomCol) = {"text", "hasHeader", "count"}

\* The number of entries of Z_FROM_SYMBOL, the atomic number of its last one.
ElementCount == 118

\* The symbols of the table that have the atomic number z.
SymbolsOf(z) == {e[1] : e \in {f \in Z_FROM_SYMBOL : f[2] = z}}

\* The table has 118 entries, no symbol twice, and its atomic numbers are
\* exactly 1..118, each with one symbol.
TableShape ==
    /\ Cardinality(Z_FROM_SYMBOL) = ElementCount
    /\ Cardinality({e[1] : e \in Z_FROM_SYMBOL}) = ElementCount
    /\ {e[2] : e \in Z_FROM_SYMBOL} = 1..ElementCount
    /\ \A z \in 1..ElementCount : Cardinality(SymbolsOf(z)) = 1
    /\ \A e \in Z_FROM_SYMBOL :
           /\ getZ(e[1]) = Num(e[2])
           /\ SymbolsOf(getZ(e[1]).n) = {e[1]}

\* C12: Z_FROM_SYMBOL has exactly 118 entries, no symbol twice, and its
\* atomic numbers are exactly 1..118, each with one symbol, so that the
\* table can be inverted: the symbol of getZ(sym) is sym again for every
\* symbol of the table, those of the atoms on display among them.
TableIsBijection ==
    /\ TableShape
    /\ \A i \in 1..Len(ShownEntries) :
           LET sym == ShownEntries[i].sym
           IN  sym \in {e[1] : e \in Z_FROM_SYMBOL} =>
                   /\ getZ(sym).n \in 1..ElementCount
                   /\ SymbolsOf(getZ(sym).n) = {sym}

\* C12 (witness): the last element of the table is on display, Og in one
\* label mode and 118 in the other.
LastElementShown ==
    /\ Loaded
    /\ \E i \in 1..Len(ShownEntries) :
           /\ ShownEntries[i].sym = <<"O", "g">>
           /\ getZ(ShownEntries[i].sym) = Num(ElementCount)
           /\ StartsWith(RowsIn(prettySym)[i], <<"O", "g">>)
           /\ StartsWith(RowsIn(prettyZ)[i], <<"1", "1", "8">>)

\* The result on display: that of the label mode the switch selects.
ShownPretty == IF showZ THEN prettyZ ELSE prettySym

\* C13 (as claimed): whenever formatXYZ returns count > 0, in either label
\* mode, its text is exactly count lines, none of them blank, without a
\* newline at its end, and the index gutter has one number for each line of
\* the text on display.
CountMatchesRows ==
    Loaded =>
        /\ \A pretty \in {prettySym, prettyZ} :
               pretty.count > 0 =>
                   LET rows == SplitChar(pretty.text, "\n")
                   IN  /\ Len(rows) = pretty.count
                       /\ \A i \in 1..Len(rows) : Trim(rows[i]) # <<>>
                       /\ pretty.text[Len(pretty.text)] # "\n"
        /\ ShownPretty.count > 0 =>
               Len(SplitChar(indexGutter, "\n")) = Len(SplitChar(displayXYZ, "\n"))

\* C14 (as claimed): the two label modes give the same count and the same
\* hasHeader; the rows of one atom have the same length and the same three
\* coordinate columns in both, and the label of its "z" row is the decimal
\* atomic number getZ gives for its symbol.
LabelModesAligned ==
    Loaded =>
        /\ prettySym.count = prettyZ.count
        /\ prettySym.hasHeader = prettyZ.hasHeader
        /\ prettySym.count > 0 =>
               /\ prettySym.text = Join(RowsOf(ShownEntries, Decimals, "sym"), <<"\n">>)
               /\ prettyZ.text = Join(RowsOf(ShownEntries, Decimals, "z"), <<"\n">>)
               /\ \A i \in 1..Len(ShownEntries) :
                      LET e == ShownEntries[i]
                          rs == RowOf(e, Decimals, "sym")
                          rz == RowOf(e, Decimals, "z")
                          ls == Len(atomField(e.sym, "sym"))
                          lz == Len(atomField(e.sym, "z"))
                      IN  /\ Len(rs) = Len(rz)
                          /\ SubSeq(rs, ls + 1, Len(rs)) = SubSeq(rz, lz + 1, Len(rz))
                          /\ getZ(e.sym).t = "number"
                          /\ atomField(e.sym, "z") =
                                 PadEnd(NatToString(getZ(e.sym).n), AtomFieldWidth)

\* The keys of the entries of obj that buildUrl emits, in the order in
\* which they were put into obj.
EmittedInInsertionOrder(obj) ==
    LET kept == SelectSeq(obj, LAMBDA e : IsEmitted(e.v))
    IN  [i \in 1..Len(kept) |-> FormEncode(kept[i].k)]

\* The keys of the query string of a URL, in its order.
QueryKeySeq(u) == LET p == QueryPairs(u) IN [i \in 1..Len(p) |-> p[i][1]]

\* C15 (as claimed): the emitted parameters stand in the query string in
\* the order in which they were put into the mapping, each key once, and
\* the URL is a function of the path and the mapping.
QueryInInsertionOrder ==
    url # NoUrl =>
        /\ QueryKeySeq(url) = EmittedInInsertionOrder(params)
        /\ Cardinality(QueryKeys(url)) = Len(QueryPairs(url))
        /\ url = buildUrl(SearchPath, params)

\* C15 (amended): the emitted parameters stand in the order of
\* Object.entries: first the keys that are array indices, in ascending
\* numeric order whatever the order they were put in, then all other keys
\* in the order in which they were put into the mapping; each key once, and
\* the URL is a function of the path and the mapping.
QueryInObjectEntriesOrder ==
    url # NoUrl =>
        LET keys == QueryKeySeq(url)
            isIdx(i) == IsArrayIndex(keys[i])
            ins == EmittedInInsertionOrder(params)
        IN  /\ {keys[i] : i \in 1..Len(keys)} = {ins[i] : i \in 1..Len(ins)}
            /\ Cardinality({keys[i] : i \in 1..Len(keys)}) = Len(keys)
            /\ \A i, j \in 1..Len(keys) :
                   i < j =>
                       /\ isIdx(j) => isIdx(i)
                       /\ (isIdx(i) /\ isIdx(j)) =>
                              DigitsToNat(DigitsOf(keys[i], 1, Len(keys[i]) + 1), 0)
                                  < DigitsToNat(DigitsOf(keys[j], 1, Len(keys[j]) + 1), 0)
            /\ SelectSeq(keys, LAMBDA k : ~IsArrayIndex(k))
                   = SelectSeq(ins, LAMBDA k : ~IsArrayIndex(k))
            /\ url = buildUrl(SearchPath, params)

\* C15 (witness): b, then 2, then 1 were put into the mapping, and the
\* query is 1=x&2=x&b=x.
IndexKeysMovedFirst ==
    /\ url # NoUrl
    /\ params = <<[k |-> <<"b">>, v |-> Str(<<"x">>)], [k |-> <<"2">>, v |-> Str(<<"x">>)],
                  [k |-> <<"1">>, v |-> Str(<<"x">>)]>>
    /\ QueryOf(url) = <<"1", "=", "x", "&", "2", "=", "x", "&", "b", "=", "x">>

\* The value the parameter object ps holds under the key k.
ParamOf(ps, k) ==
    LET i == CHOOSE j \in 1..Len(ps) : ps[j].k = k IN ps[i].v

\* C16: with a species selected, a change of lotId or wellRank sends no
\* request of its own and leaves exactly one timer pending, set for the full
\* 300 ms, so that an earlier change of the burst never fires; a request of
\* the debounce is sent only when that timer is due, it is one request, no
\* timer is left, and it is for the selected species with the lotId and
\* wellRank shown at that moment.
DebounceSendsLatestOnce ==
    [][/\ (lotId' # lotId \/ wellRank' # wellRank) =>
              /\ inflight' = inflight
              /\ issued' = issued
              /\ selectedId # Null =>
                     /\ Cardinality(timers') = 1
                     /\ \A t \in timers' :
                            /\ t.left = DebounceTicks
                            /\ t.id = selectedId.n
                            /\ t.lotId = lotId' /\ t.wellRank = wellRank'
       /\ \A r \in inflight' \ inflight :
              r.origin = "debounce" =>
                  /\ \E t \in timers : t.left = 0
                  /\ timers' = {}
                  /\ inflight' \ inflight = {r}
                  /\ issued' = issued + 1
                  /\ selectedId = Num(r.id)
                  /\ r.path = ConformersPath(r.id)
                  /\ ParamOf(r.params, Key.lot_id)
                         = ParamOf(ConformerParams(AppState), Key.lot_id)
                  /\ ParamOf(r.params, Key.well_rank)
                         = ParamOf(ConformerParams(AppState), Key.well_rank)]_vars

\* C16 (witness): the request of a timer that replaced a pending one is in
\* flight; it carries lot_id=7 and well_rank=1, the values of the fields.
BurstRequestInFlight ==
    \E r \in inflight :
        /\ r.origin = "debounce" /\ r.burst
        /\ lotId = Str(<<"7">>) /\ wellRank = Num(1)
        /\ ParamOf(r.params, Key.lot_id) = Str(<<"7">>)
        /\ ParamOf(r.params, Key.well_rank) = Num(1)
        /\ QueryOf(RequestUrl(r)) = Key.lot_id \o <<"=", "7", "&">> \o Key.well_rank
               \o <<"=", "1", "&">> \o Key.limit \o <<"=", "5", "0", "0">>

\* C17: conformer responses are applied in request order: the response
\* that is applied is never to a request older than the one whose result
\* the table shows, so an older answer never overwrites a newer one.
ConformersAppliedInRequestOrder ==
    [][\A r \in inflight \ inflight' :
           r.kind = "conformers" => r.seq >= confsFrom]_vars

\* C18: a step that changes the tab leaves species = [], selectedId = null,
\* confs = [], offset = 0 and error = null, and leaves the filter inputs q,
\* tsSmiles, atoms, tsAtoms, maxHeavy and limit as they were.
TabSwitchResetsResults ==
    [][mode' # mode =>
           /\ species' = <<>>
           /\ selectedId' = Null
           /\ confs' = <<>>
           /\ offset' = 0
           /\ error' = Null
           /\ UNCHANGED <<q, tsSmiles, atoms, tsAtoms, maxHeavy, limit>>]_vars

\* C18 (witness): the tab was switched while the conformers of a species
\* selected in the tab before were loading; the results are empty, the
\* SMILES and the heavy atom limit typed before are still there.
SwitchedAwayFromSelection ==
    /\ \E r \in inflight : r.kind = "conformers" /\ r.mode # mode
    /\ species = <<>> /\ selectedId = Null /\ confs = <<>>
    /\ offset = 0 /\ error = Null
    /\ q # <<>> /\ maxHeavy # HEAVY_ATOM_CAP

\* C19: no stale results after a tab switch: the response to a request that
\* was sent under another tab than the one now shown is not displayed, it
\* changes neither species nor confs.
NoStaleResultsAfterSwitch ==
    [][\A r \in inflight \ inflight' :
           r.mode # mode => UNCHANGED <<species, confs>>]_vars

\* The SMILES query of the tab shown: the TS SMILES field on the TS tab,
\* the SMILES field of the Molecules tab elsewhere.
ActiveSmiles == IF mode = "ts" THEN Trim(tsSmiles) ELSE Trim(q)

\* C20: a step of doSearch (the tab and the fields stay, no response is
\* taken) sends no request, sets the InChIKey message and leaves species and
\* searchLoading when the SMILES query of the tab shown has InChIKey shape,
\* and otherwise sends one search whose parameters are those of the tab
\* shown with the field of the other tab left out of account.
InchiKeyGuardOfActiveTab ==
    [][(UNCHANGED <<mode, q, tsSmiles>> /\ inflight \subseteq inflight') =>
           LET sent == inflight' \ inflight
               alone == IF mode = "ts" THEN [AppState EXCEPT !.q = <<>>]
                        ELSE [AppState EXCEPT !.tsSmiles = <<>>]
           IN  IF looksLikeInchiKey(ActiveSmiles)
               THEN /\ sent = {}
                    /\ error' = Str(InchiKeyMessage)
                    /\ UNCHANGED <<species, searchLoading>>
               ELSE \E r \in sent :
                        /\ sent = {r}
                        /\ r.kind = "search"
                        /\ r.params = SearchParams(alone, limit, offset,
                                                   Trim(alone.q), Trim(alone.tsSmiles))]_vars

\* C21: a step that toggles "Representatives only" or "Non-TS only" sends,
\* in that same step, exactly one conformer request for the selected
\* species, built from the checkbox values after the toggle, when a species
\* is selected, and sends nothing when none is.
CheckboxReloadsAtOnce ==
    [][(repOnly' # repOnly \/ nonTSOnly' # nonTSOnly) =>
           IF selectedId # Null
           THEN \E r \in inflight' \ inflight :
                    /\ inflight' \ inflight = {r}
                    /\ issued' = issued + 1
                    /\ r.kind = "conformers"
                    /\ selectedId' = selectedId
                    /\ r.path = ConformersPath(selectedId.n)
                    /\ ParamOf(r.params, Key.representative_only)
                           = (IF repOnly' THEN Bool(TRUE) ELSE Undefined)
                    /\ ParamOf(r.params, Key.is_ts)
                           = (IF nonTSOnly' THEN Bool(FALSE) ELSE Undefined)
           ELSE inflight' = inflight /\ issued' = issued]_vars

\* C21 (witness): the request of the click on a row is still in flight,
\* without representative_only, and behind it the request the ticked
\* checkbox sent for the same species, with representative_only = true.
ReloadAfterTickInFlight ==
    /\ repOnly
    /\ \E o, r \in inflight :
           /\ o.origin = "click" /\ r.origin = "effect"
           /\ r.seq > o.seq + 1 /\ r.id = o.id /\ selectedId = Num(r.id)
           /\ ParamOf(o.params, Key.representative_only) = Undefined
           /\ ParamOf(r.params, Key.representative_only) = Bool(TRUE)

\* The query string of the URL u has the parameter k with the value v.
HasPair(u, k, v) ==
    LET p == QueryPairs(u) IN \E i \in 1..Len(p) : p[i] = <<k, v>>

\* C22: every search sent on the Molecules tab has include_ts=false in its
\* URL; every conformer request sent while "Non-TS only" is checked has
\* is_ts=false in its URL, and representative_only, lot_id and well_rank
\* are absent from it when the checkbox is off or the field is empty.
FalseFiltersReachServer ==
    [][\A r \in inflight' \ inflight :
           LET u == RequestUrl(r)
           IN  /\ (r.kind = "search" /\ mode' = "molecules") =>
                      HasPair(u, Key.include_ts, FalseWord)
               /\ r.kind = "conformers" =>
                      /\ nonTSOnly' => HasPair(u, Key.is_ts, FalseWord)
                      /\ ~repOnly' => Key.representative_only \notin QueryKeys(u)
                      /\ lotId' \in {Null, Str(<<>>)} => Key.lot_id \notin QueryKeys(u)
                      /\ wellRank' = Null => Key.well_rank \notin QueryKeys(u)]_vars

\* The atom count the first line of an XYZ text declares.
DeclaredCount(text) == ParseInt(Trim(SplitLines(text)[1]))

\* C23: for a geometry with at least one accepted atom, the count in the
\* first line of the text ensureXYZHeader hands to the 3D viewer is the
\* count of formatXYZ, and the text is handed over unmodified exactly when
\* formatXYZ reports hasHeader = true.
ViewerAgreesOnAtomCount ==
    (Loaded /\ prettySym.count > 0) =>
        LET handed == ensureXYZHeader(geom_xyz)
        IN  /\ ~DeclaredCount(handed).nan
            /\ DeclaredCount(handed).n = prettySym.count
            /\ (handed = geom_xyz) <=> prettySym.hasHeader

\* C24: for a geometry with at least one accepted atom, formatting the
\* atomic-number text again reports no header and the same count, and in
\* "sym" mode gives the identical text: no row of it is taken for a
\* count or comment line.
ZOutputStableUnderReformat ==
    (Loaded /\ prettyZ.count > 0) =>
        LET zAgain == formatXYZ(prettyZ.text, Decimals, "z")
            symAgain == formatXYZ(prettyZ.text, Decimals, "sym")
        IN  /\ ~zAgain.hasHeader
            /\ ~symAgain.hasHeader
            /\ zAgain.count = prettyZ.count
            /\ symAgain.count = prettyZ.count
            /\ symAgain.text = prettyZ.text

\* C25: whenever a species search is in flight, searchLoading is true (and
\* with it the Query button is disabled).
SearchLoadingCoversRequests ==
    (\E r \in inflight : r.kind = "search") => searchLoading

=============================================================================
